---- MODULE Spec2Model ----
(***************************************************************************)
(* Verification model of the PTE read-aloud scoring engine.                *)
(*                                                                         *)
(* The engine is a set of pure functions.  Each component is modelled as   *)
(* an operator computed the way the Python code computes it, and is        *)
(* exercised by a small specification whose Init draws the inputs from     *)
(* bounded sets and whose actions apply the function and store the result. *)
(*                                                                         *)
(*   SpecAlign    read_aloud/alignment/edit_distance.py                    *)
(*   SpecScore    read_aloud/pte_pronunciation.py (aggregation)            *)
(*   SpecBand     read_aloud/pte_pronunciation.py (banding)                *)
(*   SpecPhoneme  pte_core/mfa/phoneme_alignment.py (aligner, score)        *)
(*   SpecCost     pte_core/mfa/phoneme_alignment.py (cost functions)        *)
(*   SpecBonus    pte_core/mfa/phoneme_alignment.py (consistency bonus)     *)
(*   SpecPause    pte_core/pause/pause_evaluator.py,                       *)
(*                read_aloud/pause/hesitation.py                           *)
(*   SpecMatcher  read_aloud/scorer/word_level_matcher.py                  *)
(*   SpecReport   read_aloud/report_generator.py                           *)
(*   SpecFeedback read_aloud/pte_pronunciation.py (feedback strings)       *)
(*   SpecAssess   read_aloud/mfa/pronunciation.py (per-word loop)          *)
(*   SpecBaseline pte_core/mfa/speaker_normalization.py                    *)
(*   SpecJob      api/app.py (job store, worker thread, status requests)   *)
(*                                                                         *)
(* Real numbers are kept exact: a quantity is an integer in a stated unit  *)
(* or a rational <<numerator, denominator>> in lowest terms.               *)
(***************************************************************************)
EXTENDS Integers, Sequences, FiniteSets, TLC

VARIABLES
    pc,             \* position of the call under test
    ref, hyp, ops,  \* align_sequences: arguments and returned list
    scoreArgs, scoreArgs2, scoreOut, scoreOut2,
                    \* pronunciation_score_0_100: two argument sets, results
    bandIn, bandOut,
                    \* pte_pronunciation_band: two scores and their bands
    expected, observed, accent_tolerant, expected_len,
                    \* align_phonemes_with_dp / calculate_intelligibility_score
                    \* arguments
    alignment,      \* (alignment_path, total_cost, metadata) returned
    intelligibility,
                    \* value returned by calculate_intelligibility_score
    exp_phone, act_phone, word_final,
                    \* arguments of the phoneme cost functions
    costs,          \* values returned by the phoneme cost functions
    pattern_counts, \* consistency_bonus: the pattern map passed
    bonus,          \* value returned by consistency_bonus, in hundredths
    speech_rate_scale,
                    \* the utterance's speech-rate scale
    pending,        \* punctuation marks still to be evaluated (arguments of
                    \* the evaluate_pause calls to come)
    pause_results,  \* dicts returned by evaluate_pause so far
    clustered,      \* list returned by apply_hesitation_clustering
    pause_penalty,  \* value returned by aggregate_pause_penalty
    reference_text, asr_words,
                    \* word_level_matcher_from_asr: arguments
    matcher_out,    \* list returned by word_level_matcher_from_asr
    pronunciation_results,
                    \* generate_final_report: the pronunciation backend's list
    report,         \* dict returned by generate_final_report
    mfa_words, word_phones,
                    \* assess_pronunciation_mfa: the aligned words and the
                    \* phone labels grouped under each
    is_intelligible,
                    \* the verdict of assess_intelligibility on the utterance
    word_idx,       \* words the per-word loop has finished
    results,        \* the per-word result list
    dp_phone_scores, dp_stress_scores, all_patterns, all_errors,
    final_stop_opportunities, final_stop_drops,
                    \* the loop's utterance-level accumulators
    JOB_STORE,      \* api/app.py: the job dict of the one job id, <<>> before
                    \* the job is created
    worker_pc,      \* position of the worker thread in run_mfa_job
    engine_out,     \* what align_and_validate returned or raised
    temp_files,     \* whether the job's temporary files exist
    req_pc,         \* position of the request thread in check_status
    response,       \* the response check_status is building or has returned
    polls,          \* check_status requests answered so far
    bl_phones,      \* analyze_speaker_baseline: the phone list passed
    baseline,       \* dict returned by analyze_speaker_baseline
    fb_summary,     \* generate_feedback_strings: the summary dict passed
    feedback        \* list returned by generate_feedback_strings

vars == <<pc, ref, hyp, ops, scoreArgs, scoreArgs2, scoreOut, scoreOut2,
          bandIn, bandOut, expected, observed, accent_tolerant, expected_len,
          alignment, intelligibility, exp_phone, act_phone, word_final,
          costs, pattern_counts, bonus, speech_rate_scale, pending, pause_results, clustered,
          pause_penalty, reference_text, asr_words, matcher_out,
          pronunciation_results, report, fb_summary, feedback,
          mfa_words, word_phones, is_intelligible, word_idx, results,
          dp_phone_scores, dp_stress_scores, all_patterns, all_errors,
          final_stop_opportunities, final_stop_drops, bl_phones, baseline,
          JOB_STORE, worker_pc, engine_out, temp_files, req_pc, response, polls>>

alignVars   == <<ref, hyp, ops>>
feedbackVars == <<fb_summary, feedback>>
scoreVars   == <<scoreArgs, scoreArgs2, scoreOut, scoreOut2, feedbackVars>>
bandVars    == <<bandIn, bandOut>>
baselineVars == <<bl_phones, baseline>>
assessVars  == <<mfa_words, word_phones, is_intelligible, word_idx, results,
                 dp_phone_scores, dp_stress_scores, all_patterns, all_errors,
                 final_stop_opportunities, final_stop_drops, baselineVars>>
bonusVars   == <<pattern_counts, bonus, assessVars>>
costVars    == <<exp_phone, act_phone, word_final, costs, bonusVars>>
phonemeVars == <<expected, observed, accent_tolerant, expected_len,
                 alignment, intelligibility, costVars>>
jobVars     == <<JOB_STORE, worker_pc, engine_out, temp_files, req_pc, response, polls>>
reportVars  == <<pronunciation_results, report, jobVars>>
matcherVars == <<reference_text, asr_words, matcher_out, reportVars>>
pauseVars   == <<speech_rate_scale, pending, pause_results, clustered,
                 pause_penalty, matcherVars>>

\* Python's None where the code stores an Optional index or number.
None == -1

AlignIdle == ref = <<>> /\ hyp = <<>> /\ ops = <<>>
FeedbackIdle == fb_summary = <<>> /\ feedback = <<>>
ScoreIdle ==
    /\ scoreArgs = <<>> /\ scoreArgs2 = <<>> /\ scoreOut = None /\ scoreOut2 = None
    /\ FeedbackIdle
BandIdle  == bandIn = <<>> /\ bandOut = <<>>
BaselineIdle == bl_phones = <<>> /\ baseline = <<>>
AssessIdle ==
    /\ BaselineIdle
    /\ mfa_words = <<>> /\ word_phones = <<>> /\ is_intelligible = FALSE
    /\ word_idx = 0 /\ results = <<>>
    /\ dp_phone_scores = <<>> /\ dp_stress_scores = <<>>
    /\ all_patterns = <<>> /\ all_errors = <<>>
    /\ final_stop_opportunities = 0 /\ final_stop_drops = 0
BonusIdle == pattern_counts = <<>> /\ bonus = None /\ AssessIdle
CostIdle ==
    /\ exp_phone = <<>> /\ act_phone = <<>> /\ word_final = FALSE
    /\ costs = <<>>
    /\ BonusIdle
PhonemeDPIdle ==
    /\ expected = <<>> /\ observed = <<>> /\ accent_tolerant = TRUE
    /\ expected_len = None /\ alignment = <<>> /\ intelligibility = <<>>
PhonemeIdle == PhonemeDPIdle /\ CostIdle
JobIdle ==
    /\ JOB_STORE = <<>> /\ worker_pc = "none" /\ engine_out = <<>> /\ temp_files = FALSE
    /\ req_pc = "idle" /\ response = <<>> /\ polls = 0
ReportIdle == pronunciation_results = <<>> /\ report = <<>> /\ JobIdle
MatcherIdle ==
    /\ reference_text = <<>> /\ asr_words = <<>> /\ matcher_out = <<>>
    /\ ReportIdle
PauseEvalIdle ==
    /\ speech_rate_scale = <<1, 1>> /\ pending = <<>> /\ pause_results = <<>>
    /\ clustered = <<>> /\ pause_penalty = <<>>
PauseIdle == PauseEvalIdle /\ MatcherIdle

(***************************************************************************)
(* Generic helpers                                                         *)
(***************************************************************************)
Min2(a, b) == IF a <= b THEN a ELSE b
Max2(a, b) == IF a >= b THEN a ELSE b

\* list.reverse()
Reverse(s) == [k \in 1..Len(s) |-> s[Len(s) + 1 - k]]

\* All sequences over S of length 0..n
SeqUpTo(S, n) == UNION {[1..k -> S] : k \in 0..n}

\* Exact rationals <<numerator, denominator>>, denominator > 0, lowest terms.
RECURSIVE GCD(_, _)
GCD(a, b) == IF b = 0 THEN a ELSE GCD(b, a % b)
Abs(a) == IF a < 0 THEN -a ELSE a
Rat(n, d) ==
    LET g == GCD(Abs(n), Abs(d))
        sgn == IF d < 0 THEN -1 ELSE 1
    IN <<sgn * (n \div g), sgn * (d \div g)>>
RatLeq(x, y) == x[1] * y[2] <= y[1] * x[2]
RatLess(x, y) == x[1] * y[2] < y[1] * x[2]
RatMin(x, y) == IF RatLeq(x, y) THEN x ELSE y
RatMax(x, y) == IF RatLeq(y, x) THEN x ELSE y
RatAdd(x, y) == Rat(x[1] * y[2] + y[1] * x[2], x[2] * y[2])
RatSub(x, y) == Rat(x[1] * y[2] - y[1] * x[2], x[2] * y[2])
RatMul(x, y) == Rat(x[1] * y[1], x[2] * y[2])
RatDiv(x, y) == Rat(x[1] * y[2], x[2] * y[1])

(***************************************************************************)
(* Content aligner: align_sequences                                        *)
(***************************************************************************)
MaxLen == 3
Tokens == {"a", "b"}

Step(op, ri, hj) == [op |-> op, ri |-> ri, hj |-> hj]

\* Mutant: every pair of tokens costs a substitution, equal or not.
CostSub_AlwaysOne(r, h, i, j) == 1

\* cost_sub for DP cell (i, j): compares ref[i - 1] with hyp[j - 1]
\* (0-based in the code, 1-based sequences here).
CostSub(r, h, i, j) == IF r[i] = h[j] THEN 0 ELSE 1

\* Mutant: the del step records index i instead of i - 1.
Candidates_DelOffByOne(dp, r, h, i, j) ==
    LET cost_sub == CostSub(r, h, i, j) IN
    << <<dp[i - 1, j][1] + 1, Step("del", i, None)>>,
       <<dp[i, j - 1][1] + 1, Step("ins", None, j - 1)>>,
       <<dp[i - 1, j - 1][1] + cost_sub,
         Step(IF cost_sub = 0 THEN "match" ELSE "sub", i - 1, j - 1)>> >>

\* The candidates list of a DP cell, in the order the code builds it.
Candidates(dp, r, h, i, j) ==
    LET cost_sub == CostSub(r, h, i, j) IN
    << <<dp[i - 1, j][1] + 1, Step("del", i - 1, None)>>,
       <<dp[i, j - 1][1] + 1, Step("ins", None, j - 1)>>,
       <<dp[i - 1, j - 1][1] + cost_sub,
         Step(IF cost_sub = 0 THEN "match" ELSE "sub", i - 1, j - 1)>> >>

\* min(candidates, key=lambda x: x[0]): the first element of least key.
MinByCost(cands) ==
    LET k == CHOOSE k \in 1..Len(cands) :
                 /\ \A l \in 1..Len(cands) : cands[k][1] <= cands[l][1]
                 /\ \A l \in 1..(k - 1) : cands[l][1] > cands[k][1]
    IN cands[k]

\* <<dp[i][j], back[i][j]>> of one cell, from the cells filled before it.
DPCell(dp, r, h, i, j) ==
    IF i = 0 /\ j = 0 THEN <<0, Step("start", -1, -1)>>
    ELSE IF j = 0 THEN <<i, Step("del", i - 1, None)>>
    ELSE IF i = 0 THEN <<j, Step("ins", None, j - 1)>>
    ELSE MinByCost(Candidates(dp, r, h, i, j))

\* The fill loops: cell k of the (n+1) x (m+1) table in row-major order.
RECURSIVE FillDP(_, _, _, _)
FillDP(dp, r, h, k) ==
    LET i == k \div (Len(h) + 1)
        j == k % (Len(h) + 1)
    IN IF k >= (Len(r) + 1) * (Len(h) + 1) THEN dp
       ELSE FillDP(dp @@ (<<i, j>> :> DPCell(dp, r, h, i, j)), r, h, k + 1)

\* dp and back of the code as one table of pairs <<dp[i][j], back[i][j]>>.
DPTable(r, h) == FillDP(<<>>, r, h, 0)

\* The backtrack loop: follows back pointers from (n, m), appending steps.
RECURSIVE Backtrack(_, _, _, _)
Backtrack(table, i, j, acc) ==
    IF i = 0 /\ j = 0 THEN acc
    ELSE LET s == table[i, j][2] IN
         IF s.op \in {"match", "sub"}
             THEN Backtrack(table, i - 1, j - 1, Append(acc, s))
         ELSE IF s.op = "del" THEN Backtrack(table, i - 1, j, Append(acc, s))
         ELSE IF s.op = "ins" THEN Backtrack(table, i, j - 1, Append(acc, s))
         ELSE Append(acc, s)

align_sequences(r, h) ==
    Reverse(Backtrack(DPTable(r, h), Len(r), Len(h), <<>>))

InitAlign ==
    /\ pc = "align"
    /\ ref \in SeqUpTo(Tokens, MaxLen)
    /\ hyp \in SeqUpTo(Tokens, MaxLen)
    /\ ops = <<>>
    /\ ScoreIdle /\ BandIdle /\ PhonemeIdle /\ PauseIdle

Align ==
    /\ pc = "align"
    /\ ops' = align_sequences(ref, hyp)
    /\ pc' = "aligned"
    /\ UNCHANGED <<ref, hyp, scoreVars, bandVars, phonemeVars, pauseVars>>

NextAlign == Align

SpecAlign == InitAlign /\ [][NextAlign]_vars

(***************************************************************************)
(* Claims about the content aligner                                        *)
(***************************************************************************)
EditOps == {"match", "sub", "del", "ins"}

\* The ops that consume a reference token / a hypothesis token, in order.
RefOps(o) == SelectSeq(o, LAMBDA s : s.op \in {"match", "sub", "del"})
HypOps(o) == SelectSeq(o, LAMBDA s : s.op \in {"match", "sub", "ins"})

\* C1: the returned ops partition the indices: the reference indices carried
\* by the match/sub/del ops are exactly 0..n-1 in increasing order, the
\* hypothesis indices carried by the match/sub/ins ops are exactly 0..m-1 in
\* increasing order, an empty hypothesis gives one del per reference token
\* and an empty reference one ins per hypothesis token.
C1_AlignmentPartition ==
    pc = "aligned" =>
        /\ \A k \in 1..Len(ops) : ops[k].op \in EditOps
        /\ Len(RefOps(ops)) = Len(ref)
        /\ \A k \in 1..Len(RefOps(ops)) : RefOps(ops)[k].ri = k - 1
        /\ Len(HypOps(ops)) = Len(hyp)
        /\ \A k \in 1..Len(HypOps(ops)) : HypOps(ops)[k].hj = k - 1
        /\ (hyp = <<>> => /\ Len(ops) = Len(ref)
                          /\ \A k \in 1..Len(ops) : ops[k].op = "del")
        /\ (ref = <<>> => /\ Len(ops) = Len(hyp)
                          /\ \A k \in 1..Len(ops) : ops[k].op = "ins")

C1_Witness ==
    /\ pc = "aligned"
    /\ Len(ref) > Len(hyp) /\ Len(hyp) > 1
    /\ \E k \in 1..Len(ops) : ops[k].op = "del"
    /\ \E k \in 1..Len(ops) : ops[k].op = "sub"
    /\ \E k \in 1..Len(ops) : ops[k].op = "match"

\* Levenshtein distance by its defining recurrence on suffixes.
RECURSIVE Levenshtein(_, _)
Levenshtein(r, h) ==
    IF r = <<>> THEN Len(h)
    ELSE IF h = <<>> THEN Len(r)
    ELSE Min2(Min2(Levenshtein(Tail(r), h) + 1, Levenshtein(r, Tail(h)) + 1),
              Levenshtein(Tail(r), Tail(h))
                  + (IF Head(r) = Head(h) THEN 0 ELSE 1))

EditCount(o) == Len(SelectSeq(o, LAMBDA s : s.op \in {"sub", "del", "ins"}))

\* C2: the alignment is a minimum-edit-distance alignment: its number of
\* sub, del and ins ops equals the Levenshtein distance of the two lists,
\* a match pairs equal tokens and a sub pairs different tokens.
C2_MinimumEditDistance ==
    pc = "aligned" =>
        /\ EditCount(ops) = Levenshtein(ref, hyp)
        /\ \A k \in 1..Len(ops) :
              /\ ops[k].op = "match" => ref[ops[k].ri + 1] = hyp[ops[k].hj + 1]
              /\ ops[k].op = "sub" => ref[ops[k].ri + 1] # hyp[ops[k].hj + 1]

C2_Witness ==
    /\ pc = "aligned"
    /\ Len(ref) = 3 /\ Len(hyp) = 3
    /\ EditCount(ops) = 2
    /\ \E k \in 1..Len(ops) : ops[k].op = "ins"
    /\ \E k \in 1..Len(ops) : ops[k].op = "del"

\* The back pointer the stated tie-break would choose for cell (i, j):
\* among the candidates of least cost, diagonal before del before ins.
PreferredStep(cands) ==
    LET best == MinByCost(cands)[1] IN
    IF cands[3][1] = best THEN cands[3][2]
    ELSE IF cands[1][1] = best THEN cands[1][2]
    ELSE cands[2][2]

\* C3: on equal minimal cost the back pointer is the diagonal one in
\* preference to del, and del in preference to ins; for reference [a, a]
\* and hypothesis [a] the alignment deletes reference index 0 and matches
\* reference index 1 to hypothesis index 0.
C3_TieBreakDiagonalFirst ==
    pc = "aligned" =>
        /\ \A i \in 1..Len(ref), j \in 1..Len(hyp) :
              DPTable(ref, hyp)[i, j][2]
                  = PreferredStep(Candidates(DPTable(ref, hyp), ref, hyp, i, j))
        /\ (ref = <<"a", "a">> /\ hyp = <<"a">>)
              => ops = <<Step("del", 0, None), Step("match", 1, 0)>>

\* What the code returns on that input: the tie at cell (2, 1) goes to del.
C3_CodeTieBreak ==
    (pc = "aligned" /\ ref = <<"a", "a">> /\ hyp = <<"a">>)
        => ops = <<Step("match", 0, 0), Step("del", 1, None)>>

(***************************************************************************)
(* Score aggregator: pronunciation_score_0_100, pte_pronunciation_band     *)
(*                                                                         *)
(* Component scores are integers in hundredths (0.9 is 90).  The weighted  *)
(* sum is in units of 1/10000, the returned score_pte in tenths (81.5 is   *)
(* 815), and a score handed to the band function in hundredths.           *)
(***************************************************************************)
\* Mutant: a value above 1.0 wraps to 0.0 instead of saturating.
Clamp01_Wrap(x) == IF x > 100 THEN 0 ELSE Max2(0, x)

\* _clamp01, on hundredths
Clamp01(x) == Max2(0, Min2(100, x))

\* score = 0.55*phone + 0.25*stress + 0.10*rhythm + 0.10*consistency_bonus
\* on the clamped arguments, in units of 1/10000.
WeightedScore(a) ==
    55 * Clamp01(a.phone) + 25 * Clamp01(a.stress)
        + 10 * Clamp01(a.rhythm) + 10 * Clamp01(a.consistency_bonus)

\* min(score * 90 + 10, 90.0), in units of 1/10000.
CappedPteScore(a) == Min2(WeightedScore(a) * 90 + 100000, 900000)

\* round(x, 1) of a value in units of 1/10000, in tenths.  A value exactly
\* halfway between two tenths is stored as a binary double slightly above or
\* below the decimal value, which decides the result; tieUp is that outcome.
Round1(x, tieUp) ==
    LET q == x \div 1000
        r == x % 1000
    IN IF r < 500 THEN q
       ELSE IF r > 500 THEN q + 1
       ELSE IF tieUp THEN q + 1 ELSE q

\* Mutant: the cap at 90 is missing.
pronunciation_score_0_100_NoCap(a, tieUp) ==
    Round1(WeightedScore(a) * 90 + 100000, tieUp)

pronunciation_score_0_100(a, tieUp) == Round1(CappedPteScore(a), tieUp)

\* pte_pronunciation_band on a score in hundredths (89.9 is 8990).
pte_pronunciation_band(s) ==
    IF s >= 9000 THEN 90
    ELSE IF 8500 <= s /\ s <= 8990 THEN 85
    ELSE IF 8000 <= s /\ s <= 8490 THEN 79
    ELSE IF 7500 <= s /\ s <= 7990 THEN 73
    ELSE IF 7000 <= s /\ s <= 7490 THEN 65
    ELSE IF 6000 <= s /\ s <= 6990 THEN 58
    ELSE IF 5000 <= s /\ s <= 5990 THEN 50
    ELSE IF s >= 4500 THEN 45 ELSE 30

\* score_pte and band as the callers compute them.
ScoreAndBand(a, tieUp) ==
    LET score_pte == pronunciation_score_0_100(a, tieUp) IN
    [score_pte |-> score_pte, band |-> pte_pronunciation_band(score_pte * 10)]

ScoreStep == 25
ScoreGrid == {-ScoreStep} \cup {k * ScoreStep : k \in 0..((100 \div ScoreStep) + 1)}
ScoreFields == {"phone", "stress", "rhythm", "consistency_bonus"}

ScoreArgs(p, s, r, c) ==
    [phone |-> p, stress |-> s, rhythm |-> r, consistency_bonus |-> c]

\* phone=0.9, stress=0.8, rhythm=1.0, consistency_bonus=0.0
ExampleScoreArgs == ScoreArgs(90, 80, 100, 0)

ScoreInputs ==
    {ScoreArgs(p, s, r, c) : p \in ScoreGrid, s \in ScoreGrid,
                             r \in ScoreGrid, c \in ScoreGrid}
        \cup {ExampleScoreArgs}

ClampedArgs(a) == [f \in ScoreFields |-> Clamp01(a[f])]

\* Two calls: the second with one argument raised, the others held fixed.
InitScore ==
    /\ pc = "score"
    /\ scoreArgs \in ScoreInputs
    /\ \E f \in ScoreFields : \E v \in ScoreGrid \cup {100} :
          /\ v > scoreArgs[f]
          /\ scoreArgs2 = [scoreArgs EXCEPT ![f] = v]
    /\ scoreOut = None /\ scoreOut2 = None
    /\ FeedbackIdle
    /\ AlignIdle /\ BandIdle /\ PhonemeIdle /\ PauseIdle

\* The function is deterministic: equal clamped arguments round alike.
Score ==
    /\ pc = "score"
    /\ \E tieUp \in BOOLEAN, tieUp2 \in BOOLEAN :
          /\ ClampedArgs(scoreArgs) = ClampedArgs(scoreArgs2) => tieUp = tieUp2
          /\ scoreOut' = ScoreAndBand(scoreArgs, tieUp)
          /\ scoreOut2' = ScoreAndBand(scoreArgs2, tieUp2)
    /\ pc' = "scored"
    /\ UNCHANGED <<scoreArgs, scoreArgs2, feedbackVars, alignVars, bandVars,
                   phonemeVars, pauseVars>>

NextScore == Score

SpecScore == InitScore /\ [][NextScore]_vars

BandStep == 5
BandMaxGap == 3
BandScores == {k * BandStep : k \in (-(100 \div BandStep))..(10100 \div BandStep)}

\* Two scores s1 <= s2, in hundredths.
InitBand ==
    /\ pc = "band"
    /\ \E s \in BandScores, g \in 0..BandMaxGap : bandIn = <<s, s + g * BandStep>>
    /\ bandOut = <<>>
    /\ AlignIdle /\ ScoreIdle /\ PhonemeIdle /\ PauseIdle

Band ==
    /\ pc = "band"
    /\ bandOut' = <<pte_pronunciation_band(bandIn[1]), pte_pronunciation_band(bandIn[2])>>
    /\ pc' = "banded"
    /\ UNCHANGED <<bandIn, alignVars, scoreVars, phonemeVars, pauseVars>>

NextBand == Band

SpecBand == InitBand /\ [][NextBand]_vars

(***************************************************************************)
(* Claims about the score aggregator                                       *)
(***************************************************************************)
\* C4: raising any one of phone, stress, rhythm, consistency_bonus while the
\* other three are held fixed never lowers the returned score_pte.
C4_ScoreMonotone ==
    pc = "scored" => scoreOut.score_pte <= scoreOut2.score_pte

C4_Witness ==
    /\ pc = "scored"
    /\ scoreArgs.phone < scoreArgs2.phone
    /\ scoreArgs2.phone > 100
    /\ scoreOut.score_pte < scoreOut2.score_pte

\* The step table of the claim, on a score with one decimal (in tenths).
BandTable(t) ==
    IF t >= 900 THEN 90
    ELSE IF t >= 850 THEN 85
    ELSE IF t >= 800 THEN 79
    ELSE IF t >= 750 THEN 73
    ELSE IF t >= 700 THEN 65
    ELSE IF t >= 600 THEN 58
    ELSE IF t >= 500 THEN 50
    ELSE IF t >= 450 THEN 45 ELSE 30

\* C5: for every pair of scores s1 <= s2, of any numeric value,
\* band(s1) <= band(s2), and the band of a score follows the step table
\* >=90->90, 85-89.9->85, 80-84.9->79, 75-79.9->73, 70-74.9->65, 60-69.9->58,
\* 50-59.9->50, 45-49.9->45, else->30.
C5_BandMonotone ==
    pc = "banded" =>
        /\ bandOut[1] <= bandOut[2]
        /\ \A k \in 1..2 :
              bandIn[k] % 10 = 0 => bandOut[k] = BandTable(bandIn[k] \div 10)

\* What the code does between two rows of the table: 89.95 gets band 45.
C5_CodeGap ==
    (pc = "banded" /\ bandIn = <<8990, 8995>>) => bandOut = <<85, 45>>

\* C6 as stated: score_pte is exactly min(90, 90*(0.55*phone + 0.25*stress
\* + 0.10*rhythm + 0.10*consistency_bonus) + 10), within [10, 90]; for
\* phone=0.9, stress=0.8, rhythm=1.0, consistency_bonus=0.0 it is 81.55 and
\* the band is 79.
C6_ExactScore ==
    pc = "scored" =>
        /\ scoreOut.score_pte * 1000 = CappedPteScore(scoreArgs)
        /\ 100 <= scoreOut.score_pte /\ scoreOut.score_pte <= 900
        /\ scoreArgs = ExampleScoreArgs =>
              /\ scoreOut.score_pte * 1000 = 815500
              /\ scoreOut.band = 79

\* C6 (amended): score_pte is min(90, 90*(weighted sum of the clamped
\* arguments) + 10) rounded to one decimal place, so it is a tenth within
\* 0.05 of that value and lies in [10, 90]; for the example arguments the
\* exact value is 81.55, the returned score is one of its two neighbouring
\* tenths (81.5 or 81.6) and the band is 79.
C6_RoundedScore ==
    pc = "scored" =>
        /\ scoreOut.score_pte * 1000 - CappedPteScore(scoreArgs) <= 500
        /\ CappedPteScore(scoreArgs) - scoreOut.score_pte * 1000 <= 500
        /\ 100 <= scoreOut.score_pte /\ scoreOut.score_pte <= 900
        /\ scoreOut.band = BandTable(scoreOut.score_pte)
        /\ scoreArgs = ExampleScoreArgs =>
              /\ CappedPteScore(scoreArgs) = 815500
              /\ scoreOut.score_pte \in {815, 816}
              /\ scoreOut.band = 79

C6_Witness ==
    /\ pc = "scored"
    /\ scoreArgs = ExampleScoreArgs
    /\ scoreOut.score_pte = 815
    /\ scoreOut.band = 79

(***************************************************************************)
(* Phoneme aligner: pte_core/mfa/phoneme_alignment.py                      *)
(*                                                                         *)
(* A phone label is a string, modelled as its sequence of characters so    *)
(* that upper() and rstrip("012") are computed.  Costs are integers in     *)
(* hundredths (0.4 is 40).                                                 *)
(***************************************************************************)
LowerChars == <<"a", "b", "c", "d", "e", "f", "g", "h", "i", "j", "k", "l", "m",
                "n", "o", "p", "q", "r", "s", "t", "u", "v", "w", "x", "y", "z">>
UpperChars == <<"A", "B", "C", "D", "E", "F", "G", "H", "I", "J", "K", "L", "M",
                "N", "O", "P", "Q", "R", "S", "T", "U", "V", "W", "X", "Y", "Z">>

\* str.upper()
LowerToUpper ==
    [c \in {LowerChars[k] : k \in 1..Len(LowerChars)} |->
        UpperChars[CHOOSE k \in 1..Len(LowerChars) : LowerChars[k] = c]]
UpperChar(c) == IF c \in DOMAIN LowerToUpper THEN LowerToUpper[c] ELSE c
Upper(p) == [k \in 1..Len(p) |-> UpperChar(p[k])]

\* str.lower()
UpperToLower ==
    [c \in {UpperChars[k] : k \in 1..Len(UpperChars)} |->
        LowerChars[CHOOSE k \in 1..Len(UpperChars) : UpperChars[k] = c]]
LowerChar(c) == IF c \in DOMAIN UpperToLower THEN UpperToLower[c] ELSE c
Lower(w) == [k \in 1..Len(w) |-> LowerChar(w[k])]

\* str.rstrip("012")
RECURSIVE RStrip012(_)
RStrip012(p) ==
    IF p # <<>> /\ p[Len(p)] \in {"0", "1", "2"}
        THEN RStrip012(SubSeq(p, 1, Len(p) - 1))
        ELSE p

\* None in the place of a phone label of an alignment step.
NoPhone == <<"None">>

\* (p or "")
OrEmpty(p) == IF p = NoPhone THEN <<>> ELSE p

\* Mutant: only one trailing stress digit is removed and only "0" or "1".
base_phone_KeepsStress2(p) ==
    LET u == Upper(OrEmpty(p)) IN
    IF u # <<>> /\ u[Len(u)] \in {"0", "1"} THEN SubSeq(u, 1, Len(u) - 1) ELSE u

base_phone(p) == RStrip012(Upper(OrEmpty(p)))

stress(p) ==
    LET u == Upper(OrEmpty(p)) IN
    IF u # <<>> /\ u[Len(u)] = "1" THEN 1
    ELSE IF u # <<>> /\ u[Len(u)] = "2" THEN 2
    ELSE 0

VOWELS == {<<"A", "A">>, <<"A", "E">>, <<"A", "H">>, <<"A", "O">>, <<"A", "W">>,
           <<"A", "Y">>, <<"E", "H">>, <<"E", "R">>, <<"E", "Y">>, <<"I", "H">>,
           <<"I", "Y">>, <<"O", "W">>, <<"O", "Y">>, <<"U", "H">>, <<"U", "W">>}
FINAL_VOICELESS_STOPS == {<<"T">>, <<"K">>, <<"P">>}
FINAL_VOICED_STOPS == {<<"D">>, <<"B">>, <<"G">>}

\* Cost multipliers in tenths, keyed by <<expected base, actual base>>.
PHONEME_SIMILARITY_COST_MULT ==
    (<< <<"T", "H">>, <<"T">> >> :> 4) @@ (<< <<"T", "H">>, <<"D">> >> :> 4) @@
    (<< <<"D", "H">>, <<"D">> >> :> 4) @@ (<< <<"D", "H">>, <<"T">> >> :> 5) @@
    (<< <<"V">>, <<"W">> >> :> 3) @@ (<< <<"W">>, <<"V">> >> :> 6) @@
    (<< <<"Z">>, <<"S">> >> :> 4) @@ (<< <<"Z", "H">>, <<"S", "H">> >> :> 5)

\* The vowel weighting of a substitution cost: x1.4 on primary stress, x1.2
\* on any other vowel.
VowelWeighted(cost, exp) ==
    IF base_phone(exp) \in VOWELS
        THEN (IF stress(exp) = 1 THEN (cost * 14) \div 10 ELSE (cost * 12) \div 10)
        ELSE cost

\* substitution_cost without the similarity table.
substitution_cost_NoDiscount(exp, act) ==
    LET e == base_phone(exp)
        a == base_phone(act)
    IN IF e = <<>> \/ a = <<>> THEN 100
       ELSE IF e = a THEN 0
       ELSE VowelWeighted(100, exp)

substitution_cost(exp, act) ==
    LET e == base_phone(exp)
        a == base_phone(act)
    IN IF e = <<>> \/ a = <<>> THEN 100
       ELSE IF e = a THEN 0
       ELSE VowelWeighted(
                IF <<e, a>> \in DOMAIN PHONEME_SIMILARITY_COST_MULT
                    THEN (100 * PHONEME_SIMILARITY_COST_MULT[<<e, a>>]) \div 10
                    ELSE 100,
                exp)

deletion_cost(exp, is_word_final) ==
    LET e == base_phone(exp) IN
    IF e = <<>> THEN 100
    ELSE IF is_word_final /\ e \in FINAL_VOICELESS_STOPS THEN 30
    ELSE IF is_word_final /\ e \in FINAL_VOICED_STOPS THEN 70
    ELSE 100

insertion_cost == 100

\* sub_cost of a DP cell: substitution_cost, overridden when the directional
\* softness is switched off.
CellSubCost(exp, act, tolerant) ==
    IF tolerant THEN substitution_cost(exp, act)
    ELSE IF base_phone(exp) = base_phone(act) THEN 0
    ELSE VowelWeighted(100, exp)

PStep(op, i, j) == [op |-> op, i |-> i, j |-> j]

\* [cand_sub, cand_del, cand_ins] of cell (i, j), in the code's order.
PhonemeCandidates(dp, e, o, tolerant, i, j) ==
    LET sub_cost == CellSubCost(e[i], o[j], tolerant) IN
    << <<dp[i - 1, j - 1][1] + sub_cost,
         PStep(IF sub_cost = 0 THEN "match" ELSE "sub", i - 1, j - 1)>>,
       <<dp[i - 1, j][1] + deletion_cost(e[i], i = Len(e)), PStep("del", i - 1, None)>>,
       <<dp[i, j - 1][1] + insertion_cost, PStep("ins", None, j - 1)>> >>

\* min(candidates, key=cost) on doubles.  Costs are kept here as exact
\* hundredths; the code adds binary doubles, and two sums that are equal as
\* decimals can differ in their last bit (1.2 + 1.2 + 1.0 is 3.4 while
\* 1.0 + 1.2 + 1.2 is 3.4000000000000004).  Sums that differ as decimals
\* differ by at least 0.01 and keep their order.  So min returns one of the
\* candidates of least decimal cost, and which one is left open.
MinimaByCost(cands) ==
    {cands[k] : k \in {n \in 1..Len(cands) :
                          \A q \in 1..Len(cands) : cands[n][1] <= cands[q][1]}}

\* The values <<dp[i][j], back[i][j]>> one cell can take, from the cells
\* filled before it.
PhonemeCell(dp, e, o, tolerant, i, j) ==
    IF i = 0 /\ j = 0 THEN {<<0, PStep("start", None, None)>>}
    ELSE IF j = 0
        THEN {<<dp[i - 1, 0][1] + deletion_cost(e[i], i = Len(e)),
                PStep("del", i - 1, None)>>}
    ELSE IF i = 0
        THEN {<<dp[0, j - 1][1] + insertion_cost, PStep("ins", None, j - 1)>>}
    ELSE MinimaByCost(PhonemeCandidates(dp, e, o, tolerant, i, j))

\* The fill loops: cell k of the (n+1) x (m+1) table in row-major order,
\* applied to every table the cells before it can have produced.
RECURSIVE FillPhonemeDP(_, _, _, _, _)
FillPhonemeDP(dps, e, o, tolerant, k) ==
    LET i == k \div (Len(o) + 1)
        j == k % (Len(o) + 1)
    IN IF k >= (Len(e) + 1) * (Len(o) + 1) THEN dps
       ELSE FillPhonemeDP(
                UNION {{dp @@ (<<i, j>> :> c) : c \in PhonemeCell(dp, e, o, tolerant, i, j)} :
                       dp \in dps},
                e, o, tolerant, k + 1)

\* dp and back as one table of pairs <<dp[i][j], back[i][j]>>: the tables
\* the fill loops can end with.
PhonemeDPTable(e, o, tolerant) == FillPhonemeDP({<<>>}, e, o, tolerant, 0)

PathStep(op, exp, obs) == [op |-> op, exp |-> exp, obs |-> obs]

RECURSIVE PhonemeBacktrack(_, _, _, _, _, _)
PhonemeBacktrack(table, e, o, i, j, acc) ==
    IF i = 0 /\ j = 0 THEN acc
    ELSE LET op == table[i, j][2].op IN
         IF op \in {"match", "sub"}
             THEN PhonemeBacktrack(table, e, o, i - 1, j - 1,
                                   Append(acc, PathStep(op, e[i], o[j])))
         ELSE IF op = "del"
             THEN PhonemeBacktrack(table, e, o, i - 1, j,
                                   Append(acc, PathStep(op, e[i], NoPhone)))
         ELSE IF op = "ins"
             THEN PhonemeBacktrack(table, e, o, i, j - 1,
                                   Append(acc, PathStep(op, NoPhone, o[j])))
         ELSE acc

\* The cells (i, j) on which the fill loop increments the patterns Counter:
\* the best step is a sub of two different non-empty base phones.
PatternCells(table, e, o) ==
    {c \in (1..Len(e)) \X (1..Len(o)) :
        /\ table[c[1], c[2]][2].op = "sub"
        /\ base_phone(e[c[1]]) # <<>> /\ base_phone(o[c[2]]) # <<>>
        /\ base_phone(e[c[1]]) # base_phone(o[c[2]])}

PatternKey(e, o, c) == <<base_phone(e[c[1]]), base_phone(o[c[2]])>>

\* dict(patterns): (expected base, observed base) -> count
Patterns(table, e, o) ==
    LET cells == PatternCells(table, e, o) IN
    [k \in {PatternKey(e, o, c) : c \in cells} |->
        Cardinality({c \in cells : PatternKey(e, o, c) = k})]

\* What the function returns when the fill loops end with the given table.
AlignmentResult(table, e, o) ==
    LET alignment_path == Reverse(PhonemeBacktrack(table, e, o, Len(e), Len(o), <<>>))
        total_cost == table[Len(e), Len(o)][1]
        max_cost == IF Len(e) + Len(o) > 0 THEN 100 * (Len(e) + Len(o)) ELSE 100
    IN [alignment_path |-> alignment_path,
        total_cost |-> total_cost,
        metadata |-> [total_cost |-> total_cost,
                      max_cost |-> max_cost,
                      patterns |-> Patterns(table, e, o),
                      alignment_length |-> Len(alignment_path)]]

\* The results the function can return for one input.
align_phonemes_with_dp(e, o, tolerant) ==
    {AlignmentResult(table, e, o) : table \in PhonemeDPTable(e, o, tolerant)}

\* max_cost of calculate_intelligibility_score, in hundredths.
IntelligibilityMaxCost(metadata, len) ==
    IF len # None /\ len > 0 THEN len * 120
    ELSE IF metadata.max_cost # 0 THEN metadata.max_cost ELSE 100

\* Mutant: the raw value is returned without the clamp to [0, 1].
calculate_intelligibility_score_NoClamp(metadata, len) ==
    LET max_cost == IntelligibilityMaxCost(metadata, len) IN
    IF max_cost <= 0 THEN Rat(1, 1)
    ELSE RatSub(Rat(1, 1), Rat(metadata.total_cost, max_cost))

calculate_intelligibility_score(metadata, len) ==
    LET max_cost == IntelligibilityMaxCost(metadata, len) IN
    IF max_cost <= 0 THEN Rat(1, 1)
    ELSE RatMax(Rat(0, 1),
                RatMin(Rat(1, 1),
                       RatSub(Rat(1, 1), Rat(metadata.total_cost, max_cost))))

MaxExpected == 2
MaxObserved == 2
ExpectedPhones == {<<"T", "H">>, <<"I", "H", "1">>, <<"A", "H", "0">>,
                   <<"K">>, <<"D">>, <<>>}
ObservedPhones == {<<"T">>, <<"i", "h", "2">>, <<>>}

\* "think" as the dictionary gives it and as a speaker who stops the TH says it.
ThinkExpected == <<<<"T", "H">>, <<"I", "H", "1">>, <<"N", "G">>, <<"K">>>>
ThinkObserved == <<<<"T">>, <<"I", "H">>, <<"N", "G">>, <<"K">>>>

InitPhoneme ==
    /\ pc = "phonemes"
    /\ \/ /\ expected \in SeqUpTo(ExpectedPhones, MaxExpected)
          /\ observed \in SeqUpTo(ObservedPhones, MaxObserved)
       \/ expected = ThinkExpected /\ observed = ThinkObserved
    /\ accent_tolerant \in BOOLEAN
    /\ expected_len = None
    /\ alignment = <<>>
    /\ intelligibility = <<>>
    /\ CostIdle /\ AlignIdle /\ ScoreIdle /\ BandIdle /\ PauseIdle

AlignPhonemes ==
    /\ pc = "phonemes"
    /\ alignment' \in align_phonemes_with_dp(expected, observed, accent_tolerant)
    /\ pc' = "phonemes_aligned"
    /\ UNCHANGED <<expected, observed, accent_tolerant, expected_len,
                   intelligibility, costVars, alignVars, scoreVars, bandVars,
                   pauseVars>>

Intelligibility ==
    /\ pc = "phonemes_aligned"
    /\ \E len \in {None, 0, Len(expected)} :
          /\ expected_len' = len
          /\ intelligibility' = calculate_intelligibility_score(alignment.metadata, len)
    /\ pc' = "intelligibility_scored"
    /\ UNCHANGED <<expected, observed, accent_tolerant,
                   alignment, costVars, alignVars, scoreVars, bandVars,
                   pauseVars>>

NextPhoneme == AlignPhonemes \/ Intelligibility

SpecPhoneme == InitPhoneme /\ [][NextPhoneme]_vars

(***************************************************************************)
(* The cost functions called on their own, over the phone labels the       *)
(* module names: every base phone of VOWELS, of the final-stop sets and of *)
(* the similarity table, bare or with a stress digit, in either case, and  *)
(* None.                                                                   *)
(***************************************************************************)
StressSuffixes == {<<>>, <<"0">>, <<"1">>, <<"2">>}

BasePhones ==
    VOWELS \cup FINAL_VOICELESS_STOPS \cup FINAL_VOICED_STOPS
        \cup {k[1] : k \in DOMAIN PHONEME_SIMILARITY_COST_MULT}
        \cup {k[2] : k \in DOMAIN PHONEME_SIMILARITY_COST_MULT}
        \cup {<<>>}

PhoneLabels == {p \o d : p \in BasePhones, d \in StressSuffixes}

CostPhones == PhoneLabels \cup {Lower(l) : l \in PhoneLabels} \cup {NoPhone}

InitCost ==
    /\ pc = "costs"
    /\ exp_phone \in CostPhones
    /\ act_phone \in CostPhones
    /\ word_final \in BOOLEAN
    /\ costs = <<>>
    /\ BonusIdle
    /\ PhonemeDPIdle /\ AlignIdle /\ ScoreIdle /\ BandIdle /\ PauseIdle

Costs ==
    /\ pc = "costs"
    /\ costs' = [substitution |-> substitution_cost(exp_phone, act_phone),
                 deletion |-> deletion_cost(exp_phone, word_final),
                 insertion |-> insertion_cost]
    /\ pc' = "costed"
    /\ UNCHANGED <<exp_phone, act_phone, word_final, bonusVars, expected,
                   observed, accent_tolerant, expected_len, alignment,
                   intelligibility, alignVars, scoreVars, bandVars, pauseVars>>

NextCost == Costs

SpecCost == InitCost /\ [][NextCost]_vars

(***************************************************************************)
(* consistency_bonus, in hundredths, over pattern maps that give a count   *)
(* to two pairs of the similarity table and to one pair outside it.        *)
(***************************************************************************)
\* The sum of 0.02 * count over the keys of the set keys.
RECURSIVE BonusSum(_, _)
BonusSum(patterns, keys) ==
    IF keys = {} THEN 0
    ELSE LET k == CHOOSE x \in keys : TRUE IN
         2 * patterns[k] + BonusSum(patterns, keys \ {k})

consistency_bonus(patterns) ==
    Min2(BonusSum(patterns, {k \in DOMAIN patterns :
                                /\ patterns[k] >= 3
                                /\ k \in DOMAIN PHONEME_SIMILARITY_COST_MULT}),
         10)

MaxCount == 5
PatternKeys == {<< <<"T", "H">>, <<"T">> >>, << <<"V">>, <<"W">> >>,
                << <<"K">>, <<"G">> >>}

InitBonus ==
    /\ pc = "bonus"
    /\ \E keys \in SUBSET PatternKeys : pattern_counts \in [keys -> 1..MaxCount]
    /\ bonus = None
    /\ AssessIdle
    /\ exp_phone = <<>> /\ act_phone = <<>> /\ word_final = FALSE /\ costs = <<>>
    /\ PhonemeDPIdle /\ AlignIdle /\ ScoreIdle /\ BandIdle /\ PauseIdle

ConsistencyBonus ==
    /\ pc = "bonus"
    /\ bonus' = consistency_bonus(pattern_counts)
    /\ pc' = "bonus_done"
    /\ UNCHANGED <<pattern_counts, assessVars, exp_phone, act_phone, word_final, costs,
                   expected, observed, accent_tolerant, expected_len, alignment,
                   intelligibility, alignVars, scoreVars, bandVars, pauseVars>>

NextBonus == ConsistencyBonus

SpecBonus == InitBonus /\ [][NextBonus]_vars

(***************************************************************************)
(* Claims about the phoneme aligner                                        *)
(***************************************************************************)
\* C7: for every expected/observed pair and the alignment produced for it,
\* the intelligibility v satisfies 0 <= v <= 1, with or without expected_len.
C7_IntelligibilityBounds ==
    pc = "intelligibility_scored" =>
        /\ intelligibility[2] > 0
        /\ 0 <= intelligibility[1]
        /\ intelligibility[1] <= intelligibility[2]

\* The total cost exceeds the normaliser, so the unclamped value is negative.
C7_Witness ==
    /\ pc = "intelligibility_scored"
    /\ expected_len # None /\ expected_len > 0
    /\ alignment.total_cost > expected_len * 120
    /\ intelligibility = <<0, 1>>

\* C8: substitution_cost(p, p) is 0 for every base phone p, with any stress
\* digit on either side, and substitution_cost, deletion_cost and
\* insertion_cost are never negative.
C8_CostIdentityNonNegative ==
    pc = "costed" =>
        /\ costs.substitution >= 0
        /\ costs.deletion >= 0
        /\ costs.insertion >= 0
        /\ (\E p \in BasePhones \ {<<>>} : \E d1 \in StressSuffixes, d2 \in StressSuffixes :
                exp_phone = p \o d1 /\ act_phone = p \o d2)
               => costs.substitution = 0

\* A vowel with primary stress against the same vowel with secondary stress.
C8_Witness ==
    /\ pc = "costed"
    /\ exp_phone = <<"I", "H", "1">>
    /\ act_phone = <<"I", "H", "2">>
    /\ costs.substitution = 0

(***************************************************************************)
(* Pause evaluation: pte_core/pause/pause_evaluator.py,                    *)
(* read_aloud/pause/hesitation.py, read_aloud/pause/rules.py               *)
(*                                                                         *)
(* Times (seconds), scales and penalties are exact rationals.  A word is   *)
(* its sequence of characters.                                             *)
(***************************************************************************)
\* None where the code has an Optional[float].
NoNumber == <<0, 0>>

\* None where the code has an Optional[str].
NoWord == <<"None">>

\* (min_pause, max_pause) of BASE_PAUSE_THRESHOLDS.get(punct, (0.3, 0.5))
BASE_PAUSE_THRESHOLDS(punct) ==
    IF punct = "," THEN <<Rat(3, 10), Rat(5, 10)>>
    ELSE IF punct = "." THEN <<Rat(6, 10), Rat(1, 1)>>
    ELSE <<Rat(3, 10), Rat(5, 10)>>

\* MISSED_PAUSE_PENALTIES.get(punct, default)
MISSED_PAUSE_PENALTIES(punct, default) ==
    IF punct = "," THEN Rat(5, 100)
    ELSE IF punct = "." THEN Rat(3, 10)
    ELSE default

MAX_PAUSE_DURATION == Rat(15, 10)
SHORT_PAUSE_SOFT_FLOOR == Rat(3, 10)
HESITATION_CLUSTER_WINDOW == Rat(2, 1)
MAX_PUNCTUATION_PENALTY == Rat(3, 10)

FUNCTION_WORDS ==
    {<<"a">>, <<"a", "n">>, <<"t", "h", "e">>, <<"o", "f">>, <<"t", "o">>,
     <<"i", "n">>, <<"o", "n">>, <<"a", "t">>, <<"f", "o", "r">>,
     <<"w", "i", "t", "h">>, <<"b", "y">>, <<"f", "r", "o", "m">>, <<"a", "s">>,
     <<"i", "s">>, <<"w", "a", "s">>, <<"a", "r", "e">>, <<"w", "e", "r", "e">>}

\* The missed branch without the speech-rate scaling of the comma.
MissedPenalty_Unscaled(punct, scale) ==
    IF punct = "," THEN MISSED_PAUSE_PENALTIES(",", Rat(5, 100))
    ELSE MISSED_PAUSE_PENALTIES(punct, Rat(3, 10))

\* The penalty of the missed / short / long / correct branch.
MissedPenalty(punct, scale) ==
    IF punct = "," THEN RatMul(MISSED_PAUSE_PENALTIES(",", Rat(5, 100)), scale)
    ELSE MISSED_PAUSE_PENALTIES(punct, Rat(3, 10))

ShortPenalty(punct, pause_duration, min_pause) ==
    LET ratio == RatDiv(RatSub(min_pause, pause_duration), min_pause)
        adjusted_ratio == RatDiv(RatSub(ratio, SHORT_PAUSE_SOFT_FLOOR),
                                 RatSub(Rat(1, 1), SHORT_PAUSE_SOFT_FLOOR))
        short_penalty == IF RatLeq(ratio, SHORT_PAUSE_SOFT_FLOOR) THEN Rat(0, 1)
                         ELSE RatMul(adjusted_ratio, Rat(3, 10))
        for_punct == IF punct = "," THEN RatMul(short_penalty, Rat(5, 10))
                     ELSE short_penalty
    IN RatMin(for_punct, Rat(3, 10))

LongPenalty(pause_duration, max_pause) ==
    LET excess == RatSub(pause_duration, max_pause)
        long_penalty == RatMin(RatDiv(excess, max_pause), Rat(1, 1))
    IN IF RatLess(MAX_PAUSE_DURATION, pause_duration) THEN Rat(1, 1)
       ELSE RatAdd(Rat(5, 10), RatMul(long_penalty, Rat(5, 10)))

\* The x1.5 amplification after a repeated word, capped at 1.0.
RepeatedAdjust(penalty, is_after_repeated) ==
    IF is_after_repeated THEN RatMin(RatMul(penalty, Rat(15, 10)), Rat(1, 1))
    ELSE penalty

\* The x0.6 reduction after a function word.
FunctionWordAdjust(penalty, prev_word) ==
    IF prev_word # NoWord /\ prev_word # <<>> /\ Lower(prev_word) \in FUNCTION_WORDS
        THEN RatMul(penalty, Rat(6, 10))
        ELSE penalty

evaluate_pause(punct, pause_duration, prev_end, next_start, scale, prev_word, is_after_repeated) ==
    LET min_pause == RatMul(BASE_PAUSE_THRESHOLDS(punct)[1], scale)
        max_pause == RatMul(BASE_PAUSE_THRESHOLDS(punct)[2], scale)
        status == IF pause_duration = NoNumber THEN "missed_pause"
                  ELSE IF RatLess(pause_duration, min_pause) THEN "short_pause"
                  ELSE IF RatLess(max_pause, pause_duration) THEN "long_pause"
                  ELSE "correct_pause"
        branch == IF status = "missed_pause" THEN MissedPenalty(punct, scale)
                  ELSE IF status = "short_pause"
                      THEN ShortPenalty(punct, pause_duration, min_pause)
                  ELSE IF status = "long_pause"
                      THEN LongPenalty(pause_duration, max_pause)
                  ELSE Rat(0, 1)
    IN [word |-> punct,
        expected_range |-> <<min_pause, max_pause>>,
        start |-> prev_end,
        end |-> next_start,
        status |-> status,
        pause_duration |-> pause_duration,
        penalty |-> RepeatedAdjust(FunctionWordAdjust(branch, prev_word),
                                   is_after_repeated)]

\* x.get("start", 0) or 0
StartKey(r) == IF r.start = NoNumber THEN Rat(0, 1) ELSE r.start

\* r.get("end") or r.get("start", 0) or 0
EndOrStart(r) ==
    IF r.end # NoNumber /\ r.end[1] # 0 THEN r.end ELSE StartKey(r)

\* sorted(results, key=start): the indices of the list in stable sorted order.
RECURSIVE InsertByStart(_, _, _)
InsertByStart(rs, order, i) ==
    IF order = <<>> THEN <<i>>
    ELSE IF RatLess(StartKey(rs[i]), StartKey(rs[Head(order)]))
        THEN <<i>> \o order
        ELSE <<Head(order)>> \o InsertByStart(rs, Tail(order), i)

RECURSIVE SortedOrder(_, _)
SortedOrder(rs, n) ==
    IF n = 0 THEN <<>> ELSE InsertByStart(rs, SortedOrder(rs, n - 1), n)

\* The cluster loop over positions 2..n of the sorted list: st.clusters are
\* the closed clusters, st.current the cluster being built (positions in the
\* sorted list).
RECURSIVE ClusterLoop(_, _, _, _)
ClusterLoop(sorted, window, i, st) ==
    IF i > Len(sorted) THEN st
    ELSE LET time_gap == RatSub(StartKey(sorted[i]), EndOrStart(sorted[i - 1])) IN
         IF RatLeq(time_gap, window) /\ RatLeq(Rat(0, 1), time_gap)
             THEN ClusterLoop(sorted, window, i + 1,
                              [st EXCEPT !.current = Append(@, i)])
             ELSE ClusterLoop(sorted, window, i + 1,
                              [clusters |-> IF Len(st.current) > 1
                                                THEN Append(st.clusters, st.current)
                                                ELSE st.clusters,
                               current |-> <<i>>])

\* Mutant: the cluster still open when the loop ends is forgotten.
Clusters_DropLast(sorted, window) ==
    ClusterLoop(sorted, window, 2, [clusters |-> <<>>, current |-> <<1>>]).clusters

Clusters(sorted, window) ==
    LET st == ClusterLoop(sorted, window, 2, [clusters |-> <<>>, current |-> <<1>>]) IN
    IF Len(st.current) > 1 THEN Append(st.clusters, st.current) ELSE st.clusters

\* r.get("penalty", 0.0)
PenaltyOf(r) == IF "penalty" \in DOMAIN r THEN r.penalty ELSE Rat(0, 1)

\* Mutant: the amplified penalty is not capped at 1.0.
Amplify_NoCap(r, cluster_size) ==
    ("penalty" :> RatMul(PenaltyOf(r), RatAdd(Rat(1, 1), RatMul(Rat(2, 10), Rat(cluster_size - 1, 1)))))
        @@ ("cluster_size" :> cluster_size) @@ r

\* A pause of a cluster: penalty amplified and capped, cluster_size recorded,
\* the other keys of the dict kept.
Amplify(r, cluster_size) ==
    ("penalty" :> RatMin(RatMul(PenaltyOf(r),
                                RatAdd(Rat(1, 1),
                                       RatMul(Rat(2, 10), Rat(cluster_size - 1, 1)))),
                         Rat(1, 1)))
        @@ ("cluster_size" :> cluster_size) @@ r

apply_hesitation_clustering(rs, window) ==
    IF rs = <<>> THEN rs
    ELSE LET order == SortedOrder(rs, Len(rs))
             sorted == [k \in 1..Len(rs) |-> rs[order[k]]]
             clusters == Clusters(sorted, window)
             \* the cluster holding sorted position k, or 0
             clusterOf(k) ==
                 IF \E c \in 1..Len(clusters) : \E x \in 1..Len(clusters[c]) : clusters[c][x] = k
                     THEN CHOOSE c \in 1..Len(clusters) :
                              \E x \in 1..Len(clusters[c]) : clusters[c][x] = k
                     ELSE 0
             pos(i) == CHOOSE k \in 1..Len(rs) : order[k] = i
         IN [i \in 1..Len(rs) |->
                IF clusterOf(pos(i)) = 0 THEN rs[i]
                ELSE Amplify(rs[i], Len(clusters[clusterOf(pos(i))]))]

RECURSIVE SumPenalties(_)
SumPenalties(rs) ==
    IF rs = <<>> THEN Rat(0, 1) ELSE RatAdd(PenaltyOf(Head(rs)), SumPenalties(Tail(rs)))

\* Mutant: the mean is returned without the cap.
aggregate_pause_penalty_NoCap(rs, max_penalty) ==
    IF rs = <<>> THEN Rat(0, 1)
    ELSE RatDiv(SumPenalties(rs), Rat(Len(rs), 1))

aggregate_pause_penalty(rs, max_penalty) ==
    IF rs = <<>> THEN Rat(0, 1)
    ELSE RatMin(RatDiv(SumPenalties(rs), Rat(Len(rs), 1)), max_penalty)

MaxPauses == 3
ScaleDen == 2
MaxDurTicks == 32

\* speech-rate scales in [0.5, 2.0]
Scales == {Rat(k, ScaleDen) : k \in ((ScaleDen + 1) \div 2)..(2 * ScaleDen)}

PauseInput(punct, dur, prev_end, next_start, prev_word, rep) ==
    [punct |-> punct, pause_duration |-> dur, prev_end |-> prev_end,
     next_start |-> next_start, prev_word |-> prev_word, is_after_repeated |-> rep]

\* An utterance with one punctuation mark: any punctuation, a duration that
\* is absent, negative or a multiple of 0.05 s up to 1.6 s, any preceding word.
SinglePauseInputs ==
    {PauseInput(p, d, pe, ns, w, rep) :
        p \in {",", ".", "?"},
        d \in {NoNumber} \cup {Rat(k, 20) : k \in (-1)..MaxDurTicks},
        pe \in {NoNumber, Rat(1, 1)},
        ns \in {NoNumber, Rat(2, 1)},
        w \in {NoWord, <<"T", "h", "e">>, <<"c", "a", "t", "s">>},
        rep \in BOOLEAN}

\* Utterances with several marks: a missed comma or an over-long period
\* pause, at one of five places on the time line (gaps of 0.25 s, 0.5 s,
\* 1.25 s, exactly 2.0 s, 2.5 s and 3.5 s between them).
ListPauseInputs ==
    {PauseInput(k[1], k[2], t[1], t[2], <<"c", "a", "t", "s">>, FALSE) :
        k \in {<<",", NoNumber>>, <<".", Rat(16, 10)>>},
        t \in {<<NoNumber, NoNumber>>, <<Rat(0, 1), Rat(1, 2)>>,
               <<Rat(1, 1), Rat(3, 2)>>, <<Rat(7, 4), Rat(2, 1)>>,
               <<Rat(4, 1), Rat(9, 2)>>}}

InitPause ==
    /\ pc = "pauses"
    /\ speech_rate_scale \in Scales
    /\ \/ pending \in {<<i>> : i \in SinglePauseInputs}
       \/ pending \in SeqUpTo(ListPauseInputs, MaxPauses)
    /\ pause_results = <<>>
    /\ clustered = <<>>
    /\ pause_penalty = <<>>
    /\ MatcherIdle /\ AlignIdle /\ ScoreIdle /\ BandIdle /\ PhonemeIdle

\* One pass of the matcher's loop at a punctuation token.
EvaluatePause ==
    /\ pc = "pauses"
    /\ pending # <<>>
    /\ LET a == Head(pending) IN
       pause_results' = Append(pause_results,
           evaluate_pause(a.punct, a.pause_duration, a.prev_end, a.next_start,
                          speech_rate_scale, a.prev_word, a.is_after_repeated))
    /\ pending' = Tail(pending)
    /\ UNCHANGED <<pc, speech_rate_scale, clustered, pause_penalty,
                   matcherVars, alignVars, scoreVars, bandVars, phonemeVars>>

Cluster ==
    /\ pc = "pauses"
    /\ pending = <<>>
    /\ clustered' = apply_hesitation_clustering(pause_results, HESITATION_CLUSTER_WINDOW)
    /\ pc' = "clustered"
    /\ UNCHANGED <<speech_rate_scale, pending, pause_results, pause_penalty,
                   matcherVars, alignVars, scoreVars, bandVars, phonemeVars>>

Aggregate ==
    /\ pc = "clustered"
    /\ pause_penalty' = aggregate_pause_penalty(clustered, MAX_PUNCTUATION_PENALTY)
    /\ pc' = "aggregated"
    /\ UNCHANGED <<speech_rate_scale, pending, pause_results, clustered,
                   matcherVars, alignVars, scoreVars, bandVars, phonemeVars>>

NextPause == EvaluatePause \/ Cluster \/ Aggregate

SpecPause == InitPause /\ [][NextPause]_vars

(***************************************************************************)
(* Claims about pause penalties                                            *)
(***************************************************************************)
\* The sum of the penalties of a list, by index.
RECURSIVE PenaltySum(_, _)
PenaltySum(rs, n) ==
    IF n = 0 THEN <<0, 1>> ELSE RatAdd(PenaltySum(rs, n - 1), rs[n].penalty)

\* C9: aggregate_pause_penalty returns the mean of the individual penalties
\* capped at 0.3: it is at most 0.3 for any pauses, equal to the mean when
\* the mean is at most 0.3 and to 0.3 otherwise, and 0.0 for an empty list.
C9_PausePenaltyCap ==
    pc = "aggregated" =>
        /\ pause_penalty[2] > 0
        /\ 10 * pause_penalty[1] <= 3 * pause_penalty[2]
        /\ clustered = <<>> => pause_penalty = <<0, 1>>
        /\ clustered # <<>> =>
              LET total == PenaltySum(clustered, Len(clustered))
                  n == Len(clustered)
              IN IF 10 * total[1] <= 3 * n * total[2]
                     THEN pause_penalty[1] * n * total[2] = total[1] * pause_penalty[2]
                     ELSE pause_penalty = <<3, 10>>

\* Three pauses whose mean penalty is above the cap.
C9_Witness ==
    /\ pc = "aggregated"
    /\ Len(clustered) = 3
    /\ LET total == PenaltySum(clustered, 3) IN 10 * total[1] > 9 * total[2]
    /\ pause_penalty = <<3, 10>>

\* C10: every penalty returned by evaluate_pause lies in [0, 1], and after
\* apply_hesitation_clustering no pause penalty exceeds 1.0.
C10_PenaltyBounded ==
    /\ \A k \in 1..Len(pause_results) :
          /\ pause_results[k].penalty[2] > 0
          /\ 0 <= pause_results[k].penalty[1]
          /\ pause_results[k].penalty[1] <= pause_results[k].penalty[2]
    /\ pc \in {"clustered", "aggregated"} =>
          /\ Len(clustered) = Len(pause_results)
          /\ \A k \in 1..Len(clustered) :
                /\ clustered[k].penalty[2] > 0
                /\ 0 <= clustered[k].penalty[1]
                /\ clustered[k].penalty[1] <= clustered[k].penalty[2]

\* Two pauses of penalty 1.0 in one cluster: the x1.2 amplification is cut
\* back to 1.0.
C10_Witness ==
    /\ pc = "clustered"
    /\ \E k \in 1..Len(clustered) :
          /\ pause_results[k].penalty = <<1, 1>>
          /\ "cluster_size" \in DOMAIN clustered[k]
          /\ clustered[k].cluster_size = 2
          /\ clustered[k].penalty = <<1, 1>>

\* Every pause of the list has a known start and a known end.
Timed(rs) == \A k \in 1..Len(rs) : rs[k].start # NoNumber /\ rs[k].end # NoNumber

\* The pauses in order of start time (equal starts in list order): position
\* -> index of the list.
ByStart(rs) ==
    CHOOSE p \in [1..Len(rs) -> 1..Len(rs)] :
        /\ \A a, b \in 1..Len(rs) : a # b => p[a] # p[b]
        /\ \A a, b \in 1..Len(rs) :
              a < b => \/ RatLess(rs[p[a]].start, rs[p[b]].start)
                       \/ rs[p[a]].start = rs[p[b]].start /\ p[a] < p[b]

\* The pause at position k >= 2 starts within 2.0 s after the end of the
\* pause before it.
JoinsPrevious(rs, p, k) ==
    LET gap == RatSub(rs[p[k]].start, rs[p[k - 1]].end) IN
    RatLeq(Rat(0, 1), gap) /\ RatLeq(gap, Rat(2, 1))

\* The positions grouped with position k.
GroupOf(rs, p, k) ==
    {j \in 1..Len(rs) :
        \A x \in (Min2(j, k) + 1)..Max2(j, k) : JoinsPrevious(rs, p, x)}

PAUSE_PUNCTUATION == {<<",">>, <<".">>}

is_punctuation(token) == token \in PAUSE_PUNCTUATION

\* str.strip(): blanks removed at both ends.
RECURSIVE LStrip(_)
LStrip(t) == IF t # <<>> /\ Head(t) = " " THEN LStrip(Tail(t)) ELSE t
Strip(t) == Reverse(LStrip(Reverse(LStrip(t))))

\* The characters re.sub(r"[^a-z0-9']+", "", token) keeps.
TokenChars ==
    {LowerChars[k] : k \in 1..Len(LowerChars)}
        \cup {"0", "1", "2", "3", "4", "5", "6", "7", "8", "9", "'"}

normalize_token(token) ==
    LET t == Strip(Lower(token)) IN
    IF t \in PAUSE_PUNCTUATION THEN t
    ELSE SelectSeq(t, LAMBDA c : c \in TokenChars)

\* re.split(r"\s+", text): the pieces between runs of blanks (an empty piece
\* where the text starts or ends with a blank, or is empty).
RECURSIVE SplitBlanks(_, _, _)
SplitBlanks(t, piece, pieces) ==
    IF t = <<>> THEN Append(pieces, piece)
    ELSE IF Head(t) = " "
        THEN SplitBlanks(LStrip(t), <<>>, Append(pieces, piece))
        ELSE SplitBlanks(Tail(t), Append(piece, Head(t)), pieces)

\* The word with its trailing pause punctuation taken off.
RECURSIVE WordPart(_)
WordPart(word) ==
    IF word # <<>> /\ <<word[Len(word)]>> \in PAUSE_PUNCTUATION
        THEN WordPart(SubSeq(word, 1, Len(word) - 1))
        ELSE word

\* The tokens one whitespace-separated word contributes.
WordTokens(word) ==
    LET part == WordPart(word)
        normalized == normalize_token(part)
        head == IF part # <<>> /\ normalized # <<>> THEN <<normalized>> ELSE <<>>
    IN head \o [k \in 1..(Len(word) - Len(part)) |-> <<word[Len(part) + k]>>]

RECURSIVE TokenizeWords(_)
TokenizeWords(raw) ==
    IF raw = <<>> THEN <<>>
    ELSE (IF Head(raw) = <<>> THEN <<>> ELSE WordTokens(Head(raw)))
             \o TokenizeWords(Tail(raw))

tokenize_reference(text) == TokenizeWords(SplitBlanks(Strip(text), <<>>, <<>>))

\* hyp_entries of tokenize_asr: the entries whose word normalizes to a
\* non-empty token, the token stored with the entry.
RECURSIVE tokenize_asr(_)
tokenize_asr(words) ==
    IF words = <<>> THEN <<>>
    ELSE LET w == Head(words)
             normalized == normalize_token(w.word)
         IN (IF normalized # <<>>
                 THEN <<[token |-> normalized, start |-> w.start, end |-> w.end]>>
                 ELSE <<>>)
            \o tokenize_asr(Tail(words))

AlignedWord(ref_word, hyp_word, op, hyp_start, hyp_end) ==
    [ref_word |-> ref_word, hyp_word |-> hyp_word, op |-> op,
     hyp_start |-> hyp_start, hyp_end |-> hyp_end]

align_reference_to_asr(text, words) ==
    LET ref_tokens == tokenize_reference(text)
        hyp_entries == tokenize_asr(words)
        hyp_tokens == [k \in 1..Len(hyp_entries) |-> hyp_entries[k].token]
        steps == align_sequences(ref_tokens, hyp_tokens)
    IN [k \in 1..Len(steps) |->
           LET ri == steps[k].ri
               hj == steps[k].hj
           IN AlignedWord(IF ri # None THEN ref_tokens[ri + 1] ELSE NoWord,
                          IF hj # None THEN hyp_tokens[hj + 1] ELSE NoWord,
                          steps[k].op,
                          IF hj # None THEN hyp_entries[hj + 1].start ELSE NoNumber,
                          IF hj # None THEN hyp_entries[hj + 1].end ELSE NoNumber)]

\* w.get("end") or w.get("value", {}).get("end"), for entries keyed by
\* "word": a time that is missing or 0 reads as None.
TimeOrNone(t) == IF t = NoNumber \/ t[1] = 0 THEN NoNumber ELSE t

BASE_INTER_WORD_GAP == Rat(25, 100)

\* The positive gaps between consecutive entries, from entry i on.
RECURSIVE PositiveGaps(_, _)
PositiveGaps(words, i) ==
    IF i >= Len(words) THEN <<>>
    ELSE LET curr_end == TimeOrNone(words[i].end)
             next_start == TimeOrNone(words[i + 1].start)
             gap == RatSub(next_start, curr_end)
         IN (IF curr_end # NoNumber /\ next_start # NoNumber /\ RatLess(Rat(0, 1), gap)
                 THEN <<gap>> ELSE <<>>)
            \o PositiveGaps(words, i + 1)

RECURSIVE SumRat(_)
SumRat(xs) == IF xs = <<>> THEN Rat(0, 1) ELSE RatAdd(Head(xs), SumRat(Tail(xs)))

calculate_speech_rate_scale(words) ==
    IF Len(words) < 2 THEN Rat(1, 1)
    ELSE LET gaps == PositiveGaps(words, 1) IN
         IF gaps = <<>> THEN Rat(1, 1)
         ELSE LET avg_gap == RatDiv(SumRat(gaps), Rat(Len(gaps), 1))
                  scale == RatDiv(avg_gap, BASE_INTER_WORD_GAP)
              IN RatMax(Rat(1, 2), RatMin(Rat(2, 1), scale))

\* next_start of a punctuation token at position idx: the start of the first
\* later aligned item that has one.
NextStart(aligned, idx) ==
    IF \E k \in (idx + 1)..Len(aligned) : aligned[k].hyp_start # NoNumber
        THEN aligned[CHOOSE k \in (idx + 1)..Len(aligned) :
                        /\ aligned[k].hyp_start # NoNumber
                        /\ \A l \in (idx + 1)..(k - 1) : aligned[l].hyp_start = NoNumber]
                 .hyp_start
        ELSE NoNumber

\* is_after_repeated of a punctuation token at position idx: the nearest
\* earlier item that carries a reference word (not punctuation) is an "ins".
IsAfterRepeated(aligned, idx) ==
    LET spoken == {k \in 1..(idx - 1) :
                      /\ aligned[k].ref_word # NoWord /\ aligned[k].ref_word # <<>>
                      /\ ~is_punctuation(aligned[k].ref_word)}
    IN /\ spoken # {}
       /\ aligned[CHOOSE k \in spoken : \A l \in spoken : l <= k].op = "ins"

\* The dict appended for a punctuation token.  evaluate_pause takes the
\* punctuation as its one character; the dict keeps the token.
PauseEntry(aligned, idx, scale, last_word_end, prev_word) ==
    LET a == aligned[idx]
        next_start == NextStart(aligned, idx)
        pause_duration ==
            IF last_word_end # NoNumber /\ next_start # NoNumber
                THEN RatMax(Rat(0, 1), RatSub(next_start, last_word_end))
                ELSE NoNumber
    IN [evaluate_pause(a.ref_word[1], pause_duration, last_word_end, next_start,
                       scale, prev_word, IsAfterRepeated(aligned, idx))
            EXCEPT !.word = a.ref_word]

\* Mutant: an inserted hypothesis word gets no entry.
WordEntry_NoInsertions(a) ==
    IF a.op = "match"
        THEN <<[word |-> a.ref_word, status |-> "correct",
                start |-> a.hyp_start, end |-> a.hyp_end]>>
    ELSE IF a.op = "del"
        THEN <<[word |-> a.ref_word, status |-> "missed",
                start |-> NoNumber, end |-> NoNumber]>>
    ELSE IF a.op = "sub"
        THEN <<[word |-> a.ref_word, status |-> "substituted",
                start |-> a.hyp_start, end |-> a.hyp_end, spoken |-> a.hyp_word]>>
    ELSE <<>>

\* The dict appended for a word item.
WordEntry(a) ==
    IF a.op = "match"
        THEN <<[word |-> a.ref_word, status |-> "correct",
                start |-> a.hyp_start, end |-> a.hyp_end]>>
    ELSE IF a.op = "del"
        THEN <<[word |-> a.ref_word, status |-> "missed",
                start |-> NoNumber, end |-> NoNumber]>>
    ELSE IF a.op = "sub"
        THEN <<[word |-> a.ref_word, status |-> "substituted",
                start |-> a.hyp_start, end |-> a.hyp_end, spoken |-> a.hyp_word]>>
    ELSE IF a.op = "ins"
        THEN <<[word |-> a.hyp_word, status |-> "repeated",
                start |-> a.hyp_start, end |-> a.hyp_end]>>
    ELSE <<>>

\* The loop over the aligned items from position idx on.
RECURSIVE MatcherLoop(_, _, _, _, _, _)
MatcherLoop(aligned, idx, scale, out, last_word_end, prev_word) ==
    IF idx > Len(aligned) THEN out
    ELSE LET a == aligned[idx] IN
         IF a.ref_word # NoWord /\ a.ref_word # <<>> /\ is_punctuation(a.ref_word)
             THEN MatcherLoop(aligned, idx + 1, scale,
                              Append(out, PauseEntry(aligned, idx, scale,
                                                     last_word_end, prev_word)),
                              last_word_end, prev_word)
             ELSE MatcherLoop(aligned, idx + 1, scale,
                              out \o WordEntry(a),
                              IF a.op \in {"match", "sub", "ins"} /\ a.hyp_end # NoNumber
                                  THEN a.hyp_end ELSE last_word_end,
                              IF a.op \in {"match", "sub"} THEN a.ref_word
                              ELSE IF a.op = "ins" THEN a.hyp_word
                              ELSE prev_word)

\* The positions of out whose word is pause punctuation, in order.
PauseIndices(out) ==
    SelectSeq([k \in 1..Len(out) |-> k], LAMBDA k : out[k].word \in PAUSE_PUNCTUATION)

\* Pause ids, clustering and the copy of the clustered penalties into out.
ClusterPauses(out) ==
    LET pause_indices == PauseIndices(out)
        withId == [k \in 1..Len(out) |->
                      IF out[k].word \in PAUSE_PUNCTUATION
                          THEN ("pause_id" :>
                                   (CHOOSE n \in 1..Len(pause_indices) : pause_indices[n] = k) - 1)
                               @@ out[k]
                          ELSE out[k]]
        pauses == [n \in 1..Len(pause_indices) |-> withId[pause_indices[n]]]
        clustered_pauses == apply_hesitation_clustering(pauses,
                                                        HESITATION_CLUSTER_WINDOW)
    IN IF pauses = <<>> THEN withId
       ELSE [k \in 1..Len(out) |->
                IF "pause_id" \in DOMAIN withId[k]
                    THEN LET c == clustered_pauses[withId[k].pause_id + 1] IN
                         ("penalty" :> PenaltyOf(c))
                             @@ (IF "cluster_size" \in DOMAIN c
                                     THEN ("cluster_size" :> c.cluster_size) @@ withId[k]
                                     ELSE withId[k])
                    ELSE withId[k]]

word_level_matcher_from_asr(words, text) ==
    LET aligned == align_reference_to_asr(text, words)
        scale == calculate_speech_rate_scale(words)
    IN ClusterPauses(MatcherLoop(aligned, 1, scale, <<>>, NoNumber, NoWord))

\* Words of the inputs.
WordI == <<"I">>
WordLike == <<"l", "i", "k", "e">>
WordCats == <<"c", "a", "t", "s">>
WordThe == <<"T", "h", "e">>

\* " ".join(words)
RECURSIVE JoinWords(_)
JoinWords(ws) ==
    IF ws = <<>> THEN <<>>
    ELSE IF Len(ws) = 1 THEN Head(ws)
    ELSE Head(ws) \o <<" ">> \o JoinWords(Tail(ws))

MaxRefWords == 2
MaxAsrWords == 3

\* Reference texts: words with or without a comma or a period after them.
RefWords == {WordLike, WordLike \o <<",">>, WordCats \o <<".">>}
ReferenceTexts == {JoinWords(ws) : ws \in SeqUpTo(RefWords, MaxRefWords)}

\* Recognized words: each lasts 0.25 s, the first starts at 0, the others
\* start 0.05 s or 0.8 s after the end of the one before.
AsrVocab == {WordLike, WordCats, <<",">>}
AsrGaps == {Rat(1, 20), Rat(4, 5)}
AsrDuration == Rat(1, 4)

RECURSIVE AsrStart(_, _)
AsrStart(gaps, k) ==
    IF k = 1 THEN Rat(0, 1)
    ELSE RatAdd(RatAdd(AsrStart(gaps, k - 1), AsrDuration), gaps[k - 1])

AsrEntry(word, start, end) == [word |-> word, start |-> start, end |-> end]

AsrWordLists ==
    UNION {{[k \in 1..Len(ws) |->
                AsrEntry(ws[k], AsrStart(gaps, k), RatAdd(AsrStart(gaps, k), AsrDuration))] :
            gaps \in [1..(Len(ws) - 1) -> AsrGaps]} :
           ws \in SeqUpTo(AsrVocab, MaxAsrWords)}

\* "I like cats." read as I (0.0-0.2), like (0.25-0.5), cats (0.55-0.9).
ExampleReference == JoinWords(<<WordI, WordLike, WordCats \o <<".">>>>)
ExampleAsr ==
    <<AsrEntry(WordI, Rat(0, 1), Rat(2, 10)),
      AsrEntry(WordLike, Rat(25, 100), Rat(5, 10)),
      AsrEntry(WordCats, Rat(55, 100), Rat(9, 10))>>

\* "The, cats." read as " The" (0.0-0.25), "cats" (1.0-1.25).
FunctionWordReference == JoinWords(<<WordThe \o <<",">>, WordCats \o <<".">>>>)
FunctionWordAsr ==
    <<AsrEntry(<<" ">> \o WordThe, Rat(0, 1), Rat(1, 4)),
      AsrEntry(WordCats, Rat(1, 1), Rat(5, 4))>>

\* "I like, cats." read as I (0.0-0.2), cats (0.55-0.9).
SkippedWordReference == JoinWords(<<WordI, WordLike \o <<",">>, WordCats \o <<".">>>>)
SkippedWordAsr ==
    <<AsrEntry(WordI, Rat(0, 1), Rat(2, 10)),
      AsrEntry(WordCats, Rat(55, 100), Rat(9, 10))>>

InitMatcher ==
    /\ pc = "matcher"
    /\ \/ reference_text \in ReferenceTexts /\ asr_words \in AsrWordLists
       \/ reference_text = ExampleReference /\ asr_words \in {ExampleAsr, <<>>}
       \/ reference_text = SkippedWordReference /\ asr_words = SkippedWordAsr
       \/ reference_text = FunctionWordReference /\ asr_words = FunctionWordAsr
    /\ matcher_out = <<>>
    /\ ReportIdle
    /\ PauseEvalIdle /\ AlignIdle /\ ScoreIdle /\ BandIdle /\ PhonemeIdle

Match ==
    /\ pc = "matcher"
    /\ matcher_out' = word_level_matcher_from_asr(asr_words, reference_text)
    /\ pc' = "matched"
    /\ UNCHANGED <<reference_text, asr_words, reportVars, speech_rate_scale,
                   pending, pause_results, clustered, pause_penalty,
                   alignVars, scoreVars, bandVars, phonemeVars>>

NextMatcher == Match

SpecMatcher == InitMatcher /\ [][NextMatcher]_vars

\* The word spoken last before position k of the matcher's output: the word
\* of the nearest earlier entry that was matched, substituted or inserted.
SpokenBefore(out, k) ==
    LET spoken == {l \in 1..(k - 1) : out[l].status \in {"correct", "substituted", "repeated"}}
    IN IF spoken = {} THEN NoWord
       ELSE out[CHOOSE l \in spoken : \A m \in spoken : m <= l].word

\* The penalty of the missed branch as the statement gives it.
MissedBase(word, scale) ==
    IF word = <<",">> THEN RatMul(Rat(5, 100), scale) ELSE Rat(3, 10)

\* The additional rules applied to a branch penalty p of the entry e: x0.6
\* after a function word, and the hesitation factor of a group of size k.
AfterRules(p, e, prev_word) ==
    LET reduced == IF prev_word # NoWord /\ Lower(prev_word) \in FUNCTION_WORDS
                       THEN RatMul(p, Rat(6, 10)) ELSE p
    IN IF "cluster_size" \in DOMAIN e
           THEN RatMin(Rat(1, 1),
                       RatMul(reduced, Rat(10 + 2 * (e.cluster_size - 1), 10)))
           ELSE reduced

\* C12: a punctuation token whose gap cannot be measured is reported with
\* status missed_pause, and its penalty is 0.05 x rate scale for a comma and
\* 0.3 for a period, before the additional rules (function word, hesitation
\* group) are applied to it.  For "I like cats." read as I (0.0-0.2),
\* like (0.25-0.5), cats (0.55-0.9) the three words are reported correct and
\* the period is missed with final penalty 0.3.
C12_MissedPause ==
    pc = "matched" =>
        /\ \A k \in 1..Len(matcher_out) :
               ("pause_duration" \in DOMAIN matcher_out[k]
                    /\ matcher_out[k].pause_duration = NoNumber) =>
                   /\ matcher_out[k].status = "missed_pause"
                   /\ matcher_out[k].penalty =
                          AfterRules(MissedBase(matcher_out[k].word,
                                                calculate_speech_rate_scale(asr_words)),
                                     matcher_out[k],
                                     SpokenBefore(matcher_out, k))
        /\ (reference_text = ExampleReference /\ asr_words = ExampleAsr) =>
               /\ Len(matcher_out) = 4
               /\ \A k \in 1..3 : matcher_out[k].status = "correct"
               /\ matcher_out[4].word = <<".">>
               /\ matcher_out[4].status = "missed_pause"
               /\ matcher_out[4].penalty = Rat(3, 10)

\* The example has been matched, and so has a text with a missed comma.
C12_Witness ==
    /\ pc = "matched"
    /\ reference_text = ExampleReference
    /\ asr_words = ExampleAsr
    /\ matcher_out[4].status = "missed_pause"

C12_WitnessComma ==
    /\ pc = "matched"
    /\ \E k \in 1..Len(matcher_out) :
           /\ matcher_out[k].word = <<",">>
           /\ matcher_out[k].status = "missed_pause"
           /\ matcher_out[k].penalty = RatMul(Rat(5, 100), Rat(2, 1))

\* C13: with accent tolerance, expected [TH, IH1, NG, K] against observed
\* [T, IH, NG, K] aligns as one substitution TH->T followed by three matches,
\* at total cost 0.4, and the intelligibility computed with the expected
\* length, 1 - 0.4 / (4 x 1.2) clamped to [0, 1], is above 0.8.
C13_ThinkAlignment ==
    (expected = ThinkExpected /\ observed = ThinkObserved /\ accent_tolerant) =>
        /\ pc \in {"phonemes_aligned", "intelligibility_scored"} =>
               /\ Len(alignment.alignment_path) = 4
               /\ alignment.alignment_path[1] =
                      [op |-> "sub", exp |-> <<"T", "H">>, obs |-> <<"T">>]
               /\ \A k \in 2..4 : alignment.alignment_path[k].op = "match"
               /\ alignment.total_cost = 40
        /\ (pc = "intelligibility_scored" /\ expected_len = Len(expected)) =>
               /\ intelligibility = RatMax(Rat(0, 1), RatMin(Rat(1, 1),
                                        RatSub(Rat(1, 1), Rat(40, 4 * 120))))
               /\ RatLess(Rat(8, 10), intelligibility)

C13_Witness ==
    /\ pc = "intelligibility_scored"
    /\ expected = ThinkExpected /\ observed = ThinkObserved /\ accent_tolerant
    /\ expected_len = 4
    /\ alignment.total_cost = 40

\* C14: when exactly one of the expected and the observed phone sequences is
\* empty the intelligibility is 0, and when both are empty it is 1.
C14_EmptySequenceRule ==
    pc = "intelligibility_scored" =>
        /\ ((expected = <<>>) # (observed = <<>>)) => intelligibility = Rat(0, 1)
        /\ (expected = <<>> /\ observed = <<>>) => intelligibility = Rat(1, 1)

\* What the code does on empty sequences: two empty sequences score 1, and an
\* empty expected sequence against any observed phone scores 0.
C14_EmptyExpected ==
    (pc = "intelligibility_scored" /\ expected = <<>>) =>
        intelligibility = (IF observed = <<>> THEN Rat(1, 1) ELSE Rat(0, 1))

\* An expected final K with nothing observed scores 0.75.
C14_DeletedFinalStop ==
    /\ pc = "intelligibility_scored"
    /\ expected = <<<<"K">>>> /\ observed = <<>>
    /\ expected_len = 1
    /\ intelligibility = Rat(3, 4)

(***************************************************************************)
(* report_generator.py: the merge of content and pronunciation results and *)
(* the final report.  Scores are rationals; score_pte is in tenths.  The   *)
(* feedback strings of the PTE summary are not part of the record.         *)
(***************************************************************************)
\* a or b on timestamps: None and 0.0 are falsy.
TimeOr(a, b) == IF a # NoNumber /\ a[1] # 0 THEN a ELSE b

\* word.lower().strip()
WordKey(word) == Strip(Lower(word))

\* pron_dict.get(word_key): the last pronunciation result under that key, or
\* <<>> when there is none.
PronResult(pron, key) ==
    LET hits == {i \in 1..Len(pron) :
                    WordKey(pron[i].word) # <<>> /\ WordKey(pron[i].word) = key}
    IN IF hits = {} THEN <<>>
       ELSE pron[CHOOSE i \in hits : \A j \in hits : j <= i]

\* The merged dict of a correct content word that has a pronunciation result.
MergedCorrect(content, pron_result) ==
    LET merged == [word |-> content.word,
                   status |-> pron_result.status,
                   start |-> TimeOr(content.start, pron_result.start),
                   end |-> TimeOr(content.end, pron_result.end),
                   confidence |-> pron_result.confidence]
        extra == DOMAIN pron_result \ {"word", "status", "start", "end", "confidence"}
    IN IF extra = {} THEN merged
       ELSE merged @@ [k \in extra |-> pron_result[k]]

\* The dict appended to unified for one content result.
MergeEntry(content, pron) ==
    IF content.status = "missed"
        THEN [word |-> content.word, status |-> "missed",
              start |-> NoNumber, end |-> NoNumber, confidence |-> Rat(0, 1)]
    ELSE IF content.status = "repeated"
        THEN [word |-> content.word, status |-> "repeated",
              start |-> content.start, end |-> content.end,
              confidence |-> Rat(0, 1)]
    ELSE IF content.status = "substituted"
        THEN [word |-> content.word, status |-> "substituted",
              start |-> content.start, end |-> content.end,
              confidence |-> Rat(0, 1), spoken |-> content.spoken]
    ELSE IF content.status = "correct"
        THEN LET pron_result == PronResult(pron, WordKey(content.word)) IN
             IF pron_result # <<>> THEN MergedCorrect(content, pron_result)
             ELSE [word |-> content.word, status |-> "correct",
                   start |-> content.start, end |-> content.end,
                   confidence |-> Rat(1, 1)]
    ELSE content

merge_content_and_pronunciation(content_results, pron) ==
    [k \in 1..Len(content_results) |-> MergeEntry(content_results[k], pron)]

\* _clamp01 on a rational
RatClamp01(x) == RatMax(Rat(0, 1), RatMin(Rat(1, 1), x))

\* round(x, 1) of a rational x >= 0, in tenths; tieUp resolves a value that
\* lies halfway between two tenths.
RatRound1(x, tieUp) ==
    LET n == x[1] * 10
        q == n \div x[2]
        r == n % x[2]
    IN IF 2 * r < x[2] THEN q
       ELSE IF 2 * r > x[2] THEN q + 1
       ELSE IF tieUp THEN q + 1 ELSE q

\* pronunciation_score_0_100 on rational arguments, in tenths.
ScorePte(phone, stress_score, rhythm, consistency, tieUp) ==
    LET score == RatAdd(RatAdd(RatMul(Rat(55, 100), RatClamp01(phone)),
                               RatMul(Rat(25, 100), RatClamp01(stress_score))),
                        RatAdd(RatMul(Rat(10, 100), RatClamp01(rhythm)),
                               RatMul(Rat(10, 100), RatClamp01(consistency))))
        pte_score == RatAdd(RatMul(score, Rat(90, 1)), Rat(10, 1))
    IN RatRound1(RatMin(pte_score, Rat(90, 1)), tieUp)

\* float(x or default)
FloatOr(x, default) == IF x[1] = 0 THEN default ELSE x

\* The number of entries of words with the given status.
CountStatus(words, status) ==
    Cardinality({k \in 1..Len(words) : words[k].status = status})

\* The statistics of the report.
ReportSummary(words) ==
    LET pauses == SelectSeq(words, LAMBDA w : w.word \in PAUSE_PUNCTUATION)
        penalty == aggregate_pause_penalty(pauses, MAX_PUNCTUATION_PENALTY)
        correct == SelectSeq(words, LAMBDA w : w.status = "correct")
        total_words == Len(words)
    IN [total_words |-> total_words,
        correct |-> Len(correct),
        mispronounced |-> CountStatus(words, "mispronounced"),
        missed |-> CountStatus(words, "missed"),
        repeated |-> CountStatus(words, "repeated"),
        substituted |-> CountStatus(words, "substituted"),
        accuracy |-> IF total_words > 0 THEN Rat(Len(correct) * 100, total_words)
                     ELSE Rat(0, 1),
        average_confidence |->
            IF correct # <<>>
                THEN RatDiv(SumRat([k \in 1..Len(correct) |-> correct[k].confidence]),
                            Rat(Len(correct), 1))
                ELSE Rat(0, 1),
        rhythm_score |-> RatClamp01(RatSub(Rat(1, 1),
                                           RatDiv(penalty, MAX_PUNCTUATION_PENALTY))),
        pause_penalty |-> penalty]

\* The PTE summary with the rhythm of the report and the recomputed score.
UpdatedPteSummary(pte_summary, rhythm_score, tieUp) ==
    LET score_pte == ScorePte(FloatOr(pte_summary.phone, Rat(0, 1)),
                              FloatOr(pte_summary.stress, Rat(0, 1)),
                              FloatOr(rhythm_score, Rat(1, 1)),
                              FloatOr(pte_summary.consistency_bonus, Rat(0, 1)),
                              tieUp)
    IN [pte_summary EXCEPT !.rhythm = rhythm_score,
                           !.score_pte = score_pte,
                           !.pte_band = pte_pronunciation_band(score_pte * 10)]

generate_final_report(content_results, pron, tieUp) ==
    LET words == merge_content_and_pronunciation(content_results, pron)
        summary == ReportSummary(words)
        carriers == {k \in 1..Len(words) : "pte_summary" \in DOMAIN words[k]}
    IN IF carriers = {} THEN [words |-> words, summary |-> summary]
       ELSE LET first == CHOOSE k \in carriers : \A l \in carriers : k <= l
                pte_summary == UpdatedPteSummary(words[first].pte_summary,
                                                 summary.rhythm_score, tieUp)
            IN [words |-> [k \in 1..Len(words) |->
                              IF k \in carriers
                                  THEN [words[k] EXCEPT !.pte_summary = pte_summary]
                                  ELSE words[k]],
                summary |-> ("pte_pronunciation" :> pte_summary) @@ summary]

\* The utterance summary the MFA backend attaches to its results: rhythm is
\* 1.0 there, the score and the band are computed from the components.
MfaSummary(phone, stress_score, consistency, tieUp) ==
    LET score_pte == ScorePte(phone, stress_score, Rat(1, 1), consistency, tieUp) IN
    [phone |-> phone, stress |-> stress_score, rhythm |-> Rat(1, 1),
     consistency_bonus |-> consistency, score_pte |-> score_pte,
     pte_band |-> pte_pronunciation_band(score_pte * 10)]

MfaSummaries ==
    {MfaSummary(Rat(0, 1), Rat(0, 1), Rat(0, 1), t) : t \in BOOLEAN}
        \cup {MfaSummary(Rat(9, 10), Rat(8, 10), Rat(6, 100), t) : t \in BOOLEAN}

\* The statuses a backend gives: "aligned" or "mispronounced" from
\* assess_pronunciation_mfa, "correct" or "mispronounced" from the
\* confidence-threshold backends.
BackendStatuses(backend) ==
    IF backend = "mfa" THEN {"aligned", "mispronounced"}
    ELSE {"correct", "mispronounced"}

\* The result of a backend for the k-th word of the reference.
PronEntry(word, k, status) ==
    [word |-> word,
     start |-> Rat(3 * (k - 1) + 1, 10),
     end |-> Rat(3 * k, 10),
     status |-> status,
     confidence |-> IF status = "mispronounced" THEN Rat(4, 10) ELSE Rat(9, 10)]

\* The pronunciation result lists for a reference text: none, or one result
\* per reference word from either backend, the MFA ones with or without the
\* utterance summary.
PronunciationLists(text) ==
    LET tokens == SelectSeq(tokenize_reference(text), LAMBDA t : ~is_punctuation(t))
        Plain(st) == [k \in 1..Len(tokens) |-> PronEntry(tokens[k], k, st[k])]
    IN {<<>>}
       \cup {Plain(st) : st \in [1..Len(tokens) -> BackendStatuses("wavlm")]}
       \cup {Plain(st) : st \in [1..Len(tokens) -> BackendStatuses("mfa")]}
       \cup {[k \in 1..Len(tokens) |-> ("pte_summary" :> sm) @@ Plain(st)[k]] :
                st \in [1..Len(tokens) -> BackendStatuses("mfa")],
                sm \in MfaSummaries}

WordsLikeCats == JoinWords(<<WordLike \o <<",">>, WordCats \o <<".">>>>)
WordsLikeLike == JoinWords(<<WordLike, WordLike \o <<".">>>>)
ReportReferences == {ExampleReference, WordsLikeCats, WordsLikeLike}

\* Recognized word lists spoken without breaks, and the example's.
ReportAsrLists ==
    {ws \in AsrWordLists :
        \A k \in 2..Len(ws) : ws[k].start = RatAdd(ws[k - 1].end, Rat(1, 20))}
        \cup {ExampleAsr}

InitReport ==
    /\ pc = "matcher"
    /\ reference_text \in ReportReferences
    /\ asr_words \in ReportAsrLists
    /\ pronunciation_results \in PronunciationLists(reference_text)
    /\ matcher_out = <<>>
    /\ report = <<>>
    /\ JobIdle
    /\ PauseEvalIdle /\ AlignIdle /\ ScoreIdle /\ BandIdle /\ PhonemeIdle

Report ==
    /\ pc = "matched"
    /\ \E tieUp \in BOOLEAN :
           report' = generate_final_report(matcher_out, pronunciation_results, tieUp)
    /\ pc' = "reported"
    /\ UNCHANGED <<reference_text, asr_words, matcher_out, pronunciation_results,
                   jobVars, speech_rate_scale, pending, pause_results, clustered,
                   pause_penalty, alignVars, scoreVars, bandVars, phonemeVars>>

NextReport == Match \/ Report

SpecReport == InitReport /\ [][NextReport]_vars

\* C15: when the recognized-word list is empty every reference word is
\* reported missed, and the report carries the lowest band, 10.
C15_DegenerateBand ==
    (pc = "reported" /\ asr_words = <<>>) =>
        /\ \A k \in 1..Len(report.words) :
               report.words[k].word \notin PAUSE_PUNCTUATION =>
                   report.words[k].status = "missed"
        /\ "pte_pronunciation" \in DOMAIN report.summary
        /\ report.summary.pte_pronunciation.pte_band = 10

\* What the code does with an empty recognized-word list: every word is
\* missed, every punctuation mark is a missed pause, and the summary holds
\* no PTE score or band, whatever the pronunciation backend returned.
C15_AllMissedNoBand ==
    (pc = "reported" /\ asr_words = <<>>) =>
        /\ \A k \in 1..Len(report.words) :
               report.words[k].status =
                   (IF report.words[k].word \in PAUSE_PUNCTUATION
                        THEN "missed_pause" ELSE "missed")
        /\ report.summary.missed =
               Cardinality({k \in 1..Len(report.words) :
                               report.words[k].word \notin PAUSE_PUNCTUATION})
        /\ "pte_pronunciation" \notin DOMAIN report.summary

\* An empty recognized-word list reported with an MFA utterance summary at hand.
C15_EmptyListReported ==
    /\ pc = "reported"
    /\ asr_words = <<>>
    /\ pronunciation_results # <<>>
    /\ "pte_summary" \in DOMAIN pronunciation_results[1]

\* C16: every entry of the report's words list that is not punctuation has a
\* status among correct, missed, substituted, repeated and mispronounced.
C16_StatusSet ==
    pc = "reported" =>
        \A k \in 1..Len(report.words) :
            report.words[k].word \notin PAUSE_PUNCTUATION =>
                report.words[k].status \in
                    {"correct", "missed", "substituted", "repeated", "mispronounced"}

\* What the code does: the status of a word is one of the five or the MFA
\* backend's "aligned".
C16_StatusSetWithAligned ==
    pc = "reported" =>
        \A k \in 1..Len(report.words) :
            report.words[k].word \notin PAUSE_PUNCTUATION =>
                report.words[k].status \in
                    {"correct", "missed", "substituted", "repeated", "mispronounced",
                     "aligned"}

\* The penalty the long-pause rule gives a gap above the scaled maximum.
LongRulePenalty(r) ==
    IF RatLess(Rat(15, 10), r.pause_duration) THEN Rat(1, 1)
    ELSE RatAdd(Rat(1, 2),
                RatMul(Rat(1, 2),
                       RatMin(Rat(1, 1),
                              RatDiv(RatSub(r.pause_duration, r.expected_range[2]),
                                     r.expected_range[2]))))

\* C17: a measured gap above the scaled maximum is a long pause whose penalty
\* is 0.5 plus half the relative excess over the maximum (at most 1.0), and
\* every measured gap beyond 1.5 s has penalty 1.0, whatever the punctuation,
\* the speech-rate scale and the preceding word.
C17_LongPauseRule ==
    \A k \in 1..Len(pause_results) :
        LET r == pause_results[k] IN
        r.pause_duration # NoNumber =>
            /\ RatLess(r.expected_range[2], r.pause_duration) =>
                   /\ r.status = "long_pause"
                   /\ r.penalty = LongRulePenalty(r)
            /\ RatLess(Rat(15, 10), r.pause_duration) => r.penalty = Rat(1, 1)

\* What the code does: a gap is long exactly when it is above the scaled
\* maximum, and the penalty of a long pause is the rule's value, times 0.6
\* after a function word, times 1.5 (at most 1.0) after a repetition.
C17_LongBranch ==
    \A k \in 1..Len(pause_results) :
        LET r == pause_results[k] IN
        r.pause_duration # NoNumber =>
            /\ r.status = "long_pause" <=> RatLess(r.expected_range[2], r.pause_duration)
            /\ r.status = "long_pause" =>
                   \E f \in BOOLEAN, rep \in BOOLEAN :
                       r.penalty =
                           LET reduced == IF f THEN RatMul(LongRulePenalty(r), Rat(6, 10))
                                          ELSE LongRulePenalty(r)
                           IN IF rep THEN RatMin(RatMul(reduced, Rat(15, 10)), Rat(1, 1))
                              ELSE reduced

\* A period pause of 1.6 s at scale 2.0 is a correct pause without penalty.
C17_SlowSpeakerCorrect ==
    /\ speech_rate_scale = Rat(2, 1)
    /\ \E k \in 1..Len(pause_results) :
           /\ pause_results[k].word = "."
           /\ pause_results[k].pause_duration = Rat(16, 10)
           /\ pause_results[k].status = "correct_pause"
           /\ pause_results[k].penalty = Rat(0, 1)

\* The status of the entry spoken last before position k of the matcher's
\* output, "none" when nothing was spoken before it.
SpokenStatusBefore(out, k) ==
    LET spoken == {l \in 1..(k - 1) : out[l].status \in {"correct", "substituted", "repeated"}}
    IN IF spoken = {} THEN "none"
       ELSE LET l == CHOOSE m \in spoken : \A n \in spoken : n <= m IN
            IF out[l].word \in PAUSE_PUNCTUATION THEN "punctuation" ELSE out[l].status

\* The penalty of the classification of the pause entry e, before any
\* additional rule.
ClassPenalty(e, scale) ==
    IF e.status = "missed_pause" THEN MissedBase(e.word, scale)
    ELSE IF e.status = "short_pause"
        THEN ShortPenalty(e.word[1], e.pause_duration, e.expected_range[1])
    ELSE IF e.status = "long_pause" THEN LongRulePenalty(e)
    ELSE Rat(0, 1)

\* The final penalty of the pause entry e computed from a penalty p that
\* already includes the repetition rule.
Finalised(p, e) ==
    IF "cluster_size" \in DOMAIN e
        THEN RatMin(Rat(1, 1), RatMul(p, Rat(10 + 2 * (e.cluster_size - 1), 10)))
        ELSE p

\* The penalty of the pause entry at position k as it is when the pause does
\* not follow a repetition, before the hesitation factor.
PlainPenalty(out, k, scale) ==
    LET prev_word == SpokenBefore(out, k)
        p == ClassPenalty(out[k], scale)
    IN IF prev_word # NoWord /\ Lower(prev_word) \in FUNCTION_WORDS
           THEN RatMul(p, Rat(6, 10)) ELSE p

\* C18: in the matcher's output, a pause whose last spoken word before it is
\* an inserted hypothesis word (reported "repeated") has the penalty of the
\* same pause not following a repetition multiplied by 1.5, at most 1.0.
C18_RepetitionRule ==
    pc = "matched" =>
        \A k \in 1..Len(matcher_out) :
            ("pause_duration" \in DOMAIN matcher_out[k]
                 /\ SpokenStatusBefore(matcher_out, k) = "repeated") =>
                matcher_out[k].penalty =
                    Finalised(RatMin(Rat(1, 1),
                                     RatMul(PlainPenalty(matcher_out, k,
                                                calculate_speech_rate_scale(asr_words)),
                                            Rat(15, 10))),
                              matcher_out[k])

\* What the code does: the repetition factor is never applied.
C18_NeverAmplified ==
    pc = "matched" =>
        \A k \in 1..Len(matcher_out) :
            "pause_duration" \in DOMAIN matcher_out[k] =>
                matcher_out[k].penalty =
                    Finalised(PlainPenalty(matcher_out, k,
                                           calculate_speech_rate_scale(asr_words)),
                              matcher_out[k])

\* A pause with a penalty right after an inserted word.
C18_PauseAfterInsertion ==
    /\ pc = "matched"
    /\ \E k \in 2..Len(matcher_out) :
           /\ "pause_duration" \in DOMAIN matcher_out[k]
           /\ matcher_out[k - 1].status = "repeated"
           /\ matcher_out[k - 1].word = WordLike
           /\ matcher_out[k].penalty # Rat(0, 1)

\* The positions of the matcher's output that hold a reference word.
RefWordPositions(out) ==
    {l \in 1..Len(out) : out[l].status \in {"correct", "missed", "substituted"}}

\* The reference word immediately before, or after, position k is a deletion.
DeletedBefore(out, k) ==
    LET before == {l \in RefWordPositions(out) : l < k}
    IN before # {} /\ out[CHOOSE l \in before : \A m \in before : m <= l].status = "missed"

DeletedAfter(out, k) ==
    LET after == {l \in RefWordPositions(out) : l > k}
    IN after # {} /\ out[CHOOSE l \in after : \A m \in after : l <= m].status = "missed"

\* C19: a punctuation token of the reference is a missed pause whenever the
\* reference word immediately before it or immediately after it is a deletion.
C19_MissedNextToDeletion ==
    pc = "matched" =>
        \A k \in 1..Len(matcher_out) :
            ("pause_duration" \in DOMAIN matcher_out[k]
                 /\ (DeletedBefore(matcher_out, k) \/ DeletedAfter(matcher_out, k))) =>
                matcher_out[k].status = "missed_pause"

\* What the code does: a punctuation token is a missed pause exactly when no
\* word was spoken before it or no later item has a start time.
C19_MissedWithoutAnchors ==
    pc = "matched" =>
        \A k \in 1..Len(matcher_out) :
            "pause_duration" \in DOMAIN matcher_out[k] =>
                (matcher_out[k].status = "missed_pause"
                    <=> (matcher_out[k].start = NoNumber \/ matcher_out[k].end = NoNumber))

\* A pause measured across a deleted word: in "I like, cats." read without
\* "like", the comma's gap runs from the end of I to the start of cats.
C19_MeasuredAcrossDeletion ==
    /\ pc = "matched"
    /\ reference_text = SkippedWordReference
    /\ matcher_out[2].status = "missed"
    /\ matcher_out[3].word = <<",">>
    /\ matcher_out[3].pause_duration = Rat(35, 100)
    /\ matcher_out[3].status # "missed_pause"

\* C20: the consistency bonus is the sum of 0.02 x count over every pattern
\* of the map whose count is at least 3, capped at 0.10; patterns with a
\* smaller count add nothing and the result lies in [0, 0.10].
C20_ConsistencyBonus ==
    pc = "bonus_done" =>
        /\ bonus = Min2(10, BonusSum(pattern_counts,
                                     {k \in DOMAIN pattern_counts : pattern_counts[k] >= 3}))
        /\ 0 <= bonus /\ bonus <= 10

\* What the code does: only the patterns of the similarity table count.
C20_TablePatternsOnly ==
    pc = "bonus_done" =>
        /\ bonus = Min2(10, BonusSum(pattern_counts,
                                     {k \in DOMAIN pattern_counts :
                                         /\ pattern_counts[k] >= 3
                                         /\ k \in {<< <<"T", "H">>, <<"T">> >>,
                                                   << <<"V">>, <<"W">> >>}}))
        /\ 0 <= bonus /\ bonus <= 10

\* K pronounced as G three times, and nothing else, earns no bonus.
C20_UnlistedPatternIgnored ==
    /\ pc = "bonus_done"
    /\ DOMAIN pattern_counts = {<< <<"K">>, <<"G">> >>}
    /\ pattern_counts[<< <<"K">>, <<"G">> >>] = 3
    /\ bonus = 0

(***************************************************************************)
(* Direction of the accent tolerance (SpecCost).  A costed state is a      *)
(* "reverse" of a table pair when <<actual base, expected base>> is a key  *)
(* of PHONEME_SIMILARITY_COST_MULT.                                        *)
(***************************************************************************)
DiscountedPair(e, a) == <<base_phone(e), base_phone(a)>> \in DOMAIN PHONEME_SIMILARITY_COST_MULT

Eps == <<"<eps>">>

\* float(summary.get(k, 0.0) or 0.0)
FloatOrZero(v) == IF v = None THEN 0 ELSE v

\* The index of the first "->" of a str, 0 if there is none.
ArrowAt(key) ==
    LET hits == {i \in 1..(Len(key) - 1) : key[i] = "-" /\ key[i + 1] = ">"}
    IN IF hits = {} THEN 0 ELSE CHOOSE i \in hits : \A k \in hits : i <= k

\* pattern_key.split("->", 1)
SplitArrow(key) == <<SubSeq(key, 1, ArrowAt(key) - 1), SubSeq(key, ArrowAt(key) + 2, Len(key))>>

\* Step 1: one message per pattern with count >= 3 whose key is a str
\* holding "->", in dict order.
RECURSIVE PatternMessages(_)
PatternMessages(items) ==
    IF items = <<>> THEN <<>>
    ELSE LET key == items[1][1]
             count == items[1][2]
         IN (IF count >= 3 /\ key.is_str /\ ArrowAt(key.val) > 0
                 THEN << <<"Consistent accent pattern", SplitArrow(key.val)[1], SplitArrow(key.val)[2]>> >>
                 ELSE <<>>)
            \o PatternMessages(Tail(items))

\* Step 2: strong areas, then the stable-accent message.
StrongMessages(phone, stress_score, consistency) ==
    (IF stress_score >= 80 /\ phone >= 75 THEN << <<"Your vowel clarity is strong">> >>
     ELSE IF phone >= 75 THEN << <<"Your pronunciation is generally clear">> >>
     ELSE <<>>)
    \o (IF consistency >= 6 THEN << <<"Your pronunciation is consistent">> >> ELSE <<>>)

\* Step 3: the first three errors.
ErrorMessage(err) ==
    IF err[2] = Eps \/ err[2] = NoPhone THEN <<"Missed sound", err[1]>>
    ELSE <<"sounded like", err[1], err[2]>>

ErrorMessages(errs) == [k \in 1..Min2(Len(errs), 3) |-> ErrorMessage(errs[k])]

\* Step 4: general improvements.
GeneralMessages(stress_score, rhythm) ==
    (IF stress_score < 75 THEN << <<"Try to maintain stress">> >> ELSE <<>>)
    \o (IF rhythm < 75 THEN << <<"Try to keep your rhythm smooth">> >> ELSE <<>>)

\* Step 5: the final-stop flag.
FlagMessages(rate) ==
    IF rate # None /\ rate >= 20 THEN << <<"Final consonants are sometimes dropped">> >> ELSE <<>>

AllFeedback(s) ==
    PatternMessages(s.patterns)
        \o StrongMessages(FloatOrZero(s.phone), FloatOrZero(s.stress), FloatOrZero(s.consistency_bonus))
        \o ErrorMessages(s.errors)
        \o GeneralMessages(FloatOrZero(s.stress), FloatOrZero(s.rhythm))
        \o FlagMessages(s.final_stop_drop_rate)

generate_feedback_strings_NoCap(s) == AllFeedback(s)

generate_feedback_strings(s) == SubSeq(AllFeedback(s), 1, Min2(Len(AllFeedback(s)), 5))

MaxPatterns == 2
MaxErrors == 4

FeedbackLevels == {None, 60, 75, 80}
FeedbackBonuses == {0, 6}
FeedbackRates == {None, 10, 20}
FeedbackKeys ==
    {[is_str |-> TRUE, val |-> <<"T", "H", "-", ">", "T">>],
     [is_str |-> TRUE, val |-> <<"V", "W">>],
     [is_str |-> FALSE, val |-> <<"Z", ",", "S">>]}
FeedbackCounts == {2, 3}
FeedbackErrors == {<< <<"T", "H">>, <<"T">> >>, << <<"K">>, Eps >>}

\* Dict items: keys are distinct.
FeedbackPatterns ==
    {q \in SeqUpTo(FeedbackKeys \X FeedbackCounts, MaxPatterns) :
        \A i, j \in 1..Len(q) : i # j => q[i][1] # q[j][1]}

InitFeedback ==
    /\ pc = "feedback"
    /\ fb_summary \in [phone : FeedbackLevels, stress : FeedbackLevels,
                    rhythm : {0, 75}, consistency_bonus : FeedbackBonuses,
                    patterns : FeedbackPatterns,
                    errors : SeqUpTo(FeedbackErrors, MaxErrors),
                    final_stop_drop_rate : FeedbackRates]
    /\ feedback = <<>>
    /\ scoreArgs = <<>> /\ scoreArgs2 = <<>> /\ scoreOut = None /\ scoreOut2 = None
    /\ AlignIdle /\ BandIdle /\ PhonemeIdle /\ PauseIdle

Feedback ==
    /\ pc = "feedback"
    /\ feedback' = generate_feedback_strings(fb_summary)
    /\ pc' = "feedback_done"
    /\ UNCHANGED <<fb_summary, scoreArgs, scoreArgs2, scoreOut, scoreOut2, alignVars,
                   bandVars, phonemeVars, pauseVars>>

NextFeedback == Feedback

SpecFeedback == InitFeedback /\ [][NextFeedback]_vars

\* The class of a message: 1 positive framing, 2 specific error, 3 general
\* guidance, 4 the final-stop flag.
MessageClass(msg) ==
    CASE msg[1] \in {"Consistent accent pattern", "Your vowel clarity is strong",
                     "Your pronunciation is generally clear",
                     "Your pronunciation is consistent"} -> 1
      [] msg[1] \in {"Missed sound", "sounded like"} -> 2
      [] msg[1] \in {"Try to maintain stress", "Try to keep your rhythm smooth"} -> 3
      [] OTHER -> 4

\* C22: generate_feedback_strings returns at most 5 items; in the returned
\* list positive-framing messages precede specific-error messages, which
\* precede general-guidance messages; a "Consistent accent pattern" message
\* is emitted only for a pattern with count >= 3.
C22_FeedbackCapAndPriority ==
    pc = "feedback_done" =>
        /\ Len(feedback) <= 5
        /\ \A i, j \in 1..Len(feedback) :
               (i < j /\ MessageClass(feedback[i]) <= 3 /\ MessageClass(feedback[j]) <= 3)
                   => MessageClass(feedback[i]) <= MessageClass(feedback[j])
        /\ \A i \in 1..Len(feedback) :
               feedback[i][1] = "Consistent accent pattern"
                   => \E k \in 1..Len(fb_summary.patterns) :
                          /\ fb_summary.patterns[k][2] >= 3
                          /\ fb_summary.patterns[k][1].is_str
                          /\ SplitArrow(fb_summary.patterns[k][1].val) = <<feedback[i][2], feedback[i][3]>>

\* More than five messages were due: a pattern message, a strong area, three
\* errors and both pieces of advice; the list returned holds five.
C22_Witness ==
    /\ pc = "feedback_done"
    /\ Len(AllFeedback(fb_summary)) > 5
    /\ Len(feedback) = 5
    /\ feedback[1][1] = "Consistent accent pattern"
    /\ \E i \in 1..5 : MessageClass(feedback[i]) = 2
    /\ \E i \in 1..5 : MessageClass(feedback[i]) = 3
    /\ \E k \in 1..Len(fb_summary.patterns) : fb_summary.patterns[k][2] < 3

(***************************************************************************)
(* The per-word loop of assess_pronunciation_mfa                           *)
(* (read_aloud/mfa/pronunciation.py) and the utterance summary it builds.  *)
(*                                                                         *)
(* The forced aligner's output is the input: the words and, under each     *)
(* word, the labels of its phones.  Phone durations are not modelled: for  *)
(* a word with phones, score_pronunciation_from_phones returns one of the  *)
(* DurationOutcomes; for a word without phones it returns what the code    *)
(* returns.  Word timestamps, timing_metrics and the ASR overlap fields    *)
(* of a result are left out.  A dict that is iterated is held in insertion *)
(* order as a sequence of <<key, value>>.                                  *)
(***************************************************************************)
INTELLIGIBILITY_FLOOR == Rat(55, 100)
CONFIDENCE_THRESHOLD == Rat(75, 100)

WordAt == <<"a", "t">>
WordOov == <<"p", "t", "e">>

\* The entries of CMUdict the model loads (ARPAbet, first pronunciation).
CMU_DICT ==
    (WordAt :> << <<"A", "E", "1">>, <<"T">> >>)
        @@ (Lower(WordThe) :> << <<"D", "H">>, <<"A", "H", "0">> >>)

\* get_word_pronunciation: [] when the word is not in the dictionary.
get_word_pronunciation(w) ==
    IF Lower(Strip(w)) \in DOMAIN CMU_DICT THEN CMU_DICT[Lower(Strip(w))] ELSE <<>>

\* phonetics.phone_mapper.arpabet_to_mfa: the MFA base label of an ARPAbet
\* phone.
arpabet_to_mfa(p) == base_phone(p)

\* The expected phones of the DP scoring: MFA base, stress digit kept.
ExpectedOf(arpabet) ==
    [k \in 1..Len(arpabet) |->
        LET p_up == Upper(arpabet[k])
            digit == IF p_up # <<>> /\ p_up[Len(p_up)] \in {"0", "1", "2"}
                         THEN <<p_up[Len(p_up)]>> ELSE <<>>
        IN arpabet_to_mfa(p_up) \o digit]

IsSilenceLabel(label) == Upper(Strip(label)) \in {<<"S", "P">>, <<"S", "I", "L">>, <<>>}

\* The observed phones of the DP scoring: base labels, silences dropped.
ObservedOf(labels) ==
    LET kept == SelectSeq(labels, LAMBDA l : ~IsSilenceLabel(l))
    IN [k \in 1..Len(kept) |-> base_phone(kept[k])]

\* What the duration analysis of a word with phones can return.
DurationOutcomes ==
    {[quality_score |-> Rat(1, 1), issues |-> <<>>],
     [quality_score |-> Rat(1, 5), issues |-> <<"phone_shortened">>]}

\* score_pronunciation_from_phones: the results it can return.
score_pronunciation_from_phones(w, labels) ==
    IF labels = <<>>
        THEN {[quality_score |-> Rat(0, 1), issues |-> <<"no_phones">>]}
        ELSE DurationOutcomes

\* dict[key] = dict.get(key, 0) + n, on a dict in insertion order.
DictAdd(items, key, n) ==
    IF \E k \in 1..Len(items) : items[k][1] = key
        THEN [k \in 1..Len(items) |->
                 IF items[k][1] = key THEN <<key, items[k][2] + n>> ELSE items[k]]
        ELSE Append(items, <<key, n>>)

RECURSIVE DictAddAll(_, _)
DictAddAll(items, more) ==
    IF more = <<>> THEN items
    ELSE DictAddAll(DictAdd(items, more[1][1], more[1][2]), Tail(more))

\* The dict as a function of its keys.
DictOf(items) ==
    [key \in {items[k][1] : k \in 1..Len(items)} |->
        items[CHOOSE k \in 1..Len(items) : items[k][1] = key][2]]

\* extract_errors_and_patterns
RECURSIVE extract_errors_and_patterns(_)
extract_errors_and_patterns(path) ==
    IF path = <<>> THEN [errors |-> <<>>, accent_patterns |-> <<>>]
    ELSE LET step == path[Len(path)]
             rest == extract_errors_and_patterns(SubSeq(path, 1, Len(path) - 1))
             e_base == base_phone(step.exp)
             has_obs == step.obs # NoPhone /\ step.obs # <<>>
             o_base == IF has_obs THEN base_phone(step.obs) ELSE <<>>
         IN IF step.exp = NoPhone \/ step.exp = <<>> THEN rest
            ELSE IF step.op = "sub" /\ e_base # o_base
                THEN [errors |-> Append(rest.errors, <<step.exp, IF has_obs THEN step.obs ELSE Eps>>),
                      accent_patterns |-> DictAdd(rest.accent_patterns, <<e_base, o_base>>, 1)]
            ELSE IF step.op = "del"
                THEN [rest EXCEPT !.errors = Append(rest.errors, <<step.exp, Eps>>)]
            ELSE rest

\* stress_accuracy: the expected primary-stressed vowels of the path and
\* those aligned with a phone of the same base.
StressedSteps(path) ==
    {k \in 1..Len(path) :
        /\ path[k].exp # NoPhone /\ path[k].exp # <<>>
        /\ base_phone(path[k].exp) \in VOWELS
        /\ stress(path[k].exp) = 1}

stress_accuracy(path) ==
    LET total == StressedSteps(path)
        correct == {k \in total :
                       /\ path[k].obs # NoPhone /\ path[k].obs # <<>>
                       /\ base_phone(path[k].exp) = base_phone(path[k].obs)}
    IN IF total = {} THEN Rat(1, 1) ELSE Rat(Cardinality(correct), Cardinality(total))

FinalStops == {<<"T">>, <<"K">>, <<"P">>, <<"D">>, <<"B">>, <<"G">>}

\* The base result of a word, before the DP fields.
BaseResult(w, sc) ==
    LET quality_score == IF is_intelligible /\ accent_tolerant
                             THEN RatMax(sc.quality_score, INTELLIGIBILITY_FLOOR)
                             ELSE sc.quality_score
    IN [word |-> w,
        status |-> IF RatLess(quality_score, CONFIDENCE_THRESHOLD)
                       THEN "mispronounced" ELSE "aligned",
        confidence |-> quality_score,
        phone_quality_score |-> quality_score,
        issues |-> sc.issues]

\* Whether the DP scoring of the word runs, and on which sequences.
DPScored(w, labels) ==
    /\ w # <<>>
    /\ labels # <<>>
    /\ get_word_pronunciation(w) # <<>>
    /\ ObservedOf(labels) # <<>>

MaxMfaWords == 2

MfaWordSet == {WordAt, Lower(WordThe), WordOov}
MfaLabelLists ==
    {<<>>,
     << <<"A", "E", "1">>, <<"T">> >>,
     << <<"s", "p">>, <<"D">>, <<"A", "H", "0">> >>,
     << <<"A", "E", "1">> >>}

InitAssess ==
    /\ pc = "assess_loop"
    /\ \E n \in 1..MaxMfaWords :
          /\ mfa_words \in [1..n -> MfaWordSet]
          /\ word_phones \in [1..n -> MfaLabelLists]
    /\ accent_tolerant \in BOOLEAN
    /\ is_intelligible \in BOOLEAN
    /\ is_intelligible => accent_tolerant
    /\ word_idx = 0 /\ results = <<>>
    /\ dp_phone_scores = <<>> /\ dp_stress_scores = <<>>
    /\ all_patterns = <<>> /\ all_errors = <<>>
    /\ final_stop_opportunities = 0 /\ final_stop_drops = 0
    /\ BaselineIdle
    /\ pattern_counts = <<>> /\ bonus = None
    /\ exp_phone = <<>> /\ act_phone = <<>> /\ word_final = FALSE /\ costs = <<>>
    /\ expected = <<>> /\ observed = <<>>
    /\ expected_len = None /\ alignment = <<>> /\ intelligibility = <<>>
    /\ AlignIdle /\ ScoreIdle /\ BandIdle /\ PauseIdle

\* One pass of the loop body on a word the DP scoring skips.
AssessUnscoredWord ==
    /\ pc = "assess_loop"
    /\ word_idx < Len(mfa_words)
    /\ ~DPScored(mfa_words[word_idx + 1], word_phones[word_idx + 1])
    /\ \E sc \in score_pronunciation_from_phones(mfa_words[word_idx + 1], word_phones[word_idx + 1]) :
          results' = Append(results, BaseResult(mfa_words[word_idx + 1], sc))
    /\ word_idx' = word_idx + 1
    /\ UNCHANGED <<baselineVars, pc, mfa_words, word_phones, is_intelligible, accent_tolerant,
                   dp_phone_scores, dp_stress_scores, all_patterns, all_errors,
                   final_stop_opportunities, final_stop_drops,
                   pattern_counts, bonus, exp_phone, act_phone, word_final, costs,
                   expected, observed, expected_len, alignment, intelligibility,
                   alignVars, scoreVars, bandVars, pauseVars>>

\* One pass of the loop body on a word the DP scoring takes.
AssessScoredWord ==
    /\ pc = "assess_loop"
    /\ word_idx < Len(mfa_words)
    /\ DPScored(mfa_words[word_idx + 1], word_phones[word_idx + 1])
    /\ LET w == mfa_words[word_idx + 1]
           expected_phones == ExpectedOf(get_word_pronunciation(w))
           observed_phones == ObservedOf(word_phones[word_idx + 1])
           last_expected == base_phone(expected_phones[Len(expected_phones)])
       IN \E sc \in score_pronunciation_from_phones(w, word_phones[word_idx + 1]) :
          \E r \in align_phonemes_with_dp(expected_phones, observed_phones, accent_tolerant) :
             LET pte_phone == calculate_intelligibility_score(r.metadata, Len(expected_phones))
                 pte_stress == stress_accuracy(r.alignment_path)
                 extracted == extract_errors_and_patterns(r.alignment_path)
             IN /\ results' = Append(results,
                                  [pte_alignment |-> r.alignment_path,
                                   pte_phone_intelligibility |-> pte_phone,
                                   pte_stress_accuracy |-> pte_stress,
                                   pte_dp_cost |-> r.metadata.total_cost,
                                   pte_dp_max_cost |-> r.metadata.max_cost]
                                      @@ BaseResult(w, sc))
                /\ all_errors' = all_errors \o extracted.errors
                /\ dp_phone_scores' = Append(dp_phone_scores, pte_phone)
                /\ dp_stress_scores' = Append(dp_stress_scores, pte_stress)
                /\ all_patterns' = DictAddAll(all_patterns, extracted.accent_patterns)
                /\ final_stop_opportunities' =
                       final_stop_opportunities + (IF last_expected \in FinalStops THEN 1 ELSE 0)
                /\ final_stop_drops' =
                       final_stop_drops
                           + (IF /\ last_expected \in FinalStops
                                 /\ \A k \in 1..Len(observed_phones) : observed_phones[k] # last_expected
                                  THEN 1 ELSE 0)
    /\ word_idx' = word_idx + 1
    /\ UNCHANGED <<baselineVars, pc, mfa_words, word_phones, is_intelligible, accent_tolerant,
                   pattern_counts, bonus, exp_phone, act_phone, word_final, costs,
                   expected, observed, expected_len, alignment, intelligibility,
                   alignVars, scoreVars, bandVars, pauseVars>>

\* floor(100 * x): comparisons with a threshold in whole hundredths are kept.
Hundredths(x) == (100 * x[1]) \div x[2]

\* The utterance summary built after the loop.
PteSummary(tieUp) ==
    LET phone == RatDiv(SumRat(dp_phone_scores), Rat(Len(dp_phone_scores), 1))
        stress_score == IF dp_stress_scores # <<>>
                            THEN RatDiv(SumRat(dp_stress_scores), Rat(Len(dp_stress_scores), 1))
                            ELSE Rat(1, 1)
        consistency_bonus_score == consistency_bonus(DictOf(all_patterns))
        final_stop_drop_rate == IF final_stop_opportunities > 0
                                    THEN (100 * final_stop_drops) \div final_stop_opportunities
                                    ELSE None
        patterns_formatted ==
            [k \in 1..Len(all_patterns) |->
                <<[is_str |-> TRUE,
                   val |-> all_patterns[k][1][1] \o <<"-", ">">> \o all_patterns[k][1][2]],
                  all_patterns[k][2]>>]
        errors == SubSeq(all_errors, 1, Min2(Len(all_errors), 10))
        scored == MfaSummary(phone, stress_score, Rat(consistency_bonus_score, 100), tieUp)
        extra == [final_stop_drop_rate |-> final_stop_drop_rate,
                  patterns |-> patterns_formatted,
                  errors |-> errors]
    IN [feedback |-> generate_feedback_strings(
                         [phone |-> Hundredths(phone), stress |-> Hundredths(stress_score),
                          rhythm |-> 100, consistency_bonus |-> consistency_bonus_score]
                             @@ extra)]
           @@ extra @@ scored

\* After the loop: the summary, if any word was DP-scored, is attached to
\* every result.
AttachSummary ==
    /\ pc = "assess_loop"
    /\ word_idx = Len(mfa_words)
    /\ IF dp_phone_scores # <<>>
           THEN \E tieUp \in BOOLEAN :
                    results' = [k \in 1..Len(results) |->
                                   [pte_summary |-> PteSummary(tieUp)] @@ results[k]]
           ELSE results' = results
    /\ pc' = "assessed"
    /\ UNCHANGED <<baselineVars, mfa_words, word_phones, is_intelligible, accent_tolerant, word_idx,
                   dp_phone_scores, dp_stress_scores, all_patterns, all_errors,
                   final_stop_opportunities, final_stop_drops,
                   pattern_counts, bonus, exp_phone, act_phone, word_final, costs,
                   expected, observed, expected_len, alignment, intelligibility,
                   alignVars, scoreVars, bandVars, pauseVars>>

NextAssess == AssessUnscoredWord \/ AssessScoredWord \/ AttachSummary

SpecAssess == InitAssess /\ [][NextAssess]_vars

HasIssue(result, issue) == \E k \in 1..Len(result.issues) : result.issues[k] = issue

\* The words of the utterance the dictionary does not hold, those with no
\* phones under them, and those whose DP score entered the averages.
OovWords == {k \in 1..Len(mfa_words) : get_word_pronunciation(mfa_words[k]) = <<>>}
NoPhoneWords == {k \in 1..Len(mfa_words) : word_phones[k] = <<>>}
AveragedWords == {k \in 1..Len(results) : "pte_phone_intelligibility" \in DOMAIN results[k]}

\* The mean the summary reports as "phone", if there is a summary.
SummaryPhoneIs(x) ==
    \A k \in 1..Len(results) :
        "pte_summary" \in DOMAIN results[k] => results[k].pte_summary.phone = x

C23_OovExcludedUnflagged ==
    pc = "assessed" =>
        /\ \A k \in OovWords : k \notin AveragedWords /\ ~HasIssue(results[k], "oov")
        /\ Len(dp_phone_scores) = Cardinality(AveragedWords)
        /\ Len(dp_stress_scores) = Cardinality(AveragedWords)
        /\ AveragedWords # {} =>
               SummaryPhoneIs(RatDiv(SumRat(dp_phone_scores), Rat(Cardinality(AveragedWords), 1)))

\* An utterance of a dictionary word and an out-of-vocabulary word, both
\* spoken: there is a summary, and the second word has a result.
C23_OovWordAssessed ==
    /\ pc = "assessed"
    /\ mfa_words = <<WordAt, WordOov>>
    /\ word_phones[2] # <<>>
    /\ AveragedWords = {1}
    /\ "pte_summary" \in DOMAIN results[2]
    /\ results[2].issues = <<>>

C24_NoPhonesFlooredExcluded ==
    pc = "assessed" =>
        \A k \in NoPhoneWords :
            /\ results[k].issues = <<"no_phones">>
            /\ results[k].phone_quality_score =
                   IF is_intelligible /\ accent_tolerant THEN INTELLIGIBILITY_FLOOR ELSE Rat(0, 1)
            /\ k \notin AveragedWords
            /\ SummaryPhoneIs(RatDiv(SumRat(dp_phone_scores), Rat(Len(dp_phone_scores), 1)))

\* "at" spoken in full and "the" with no phones, in an intelligible
\* utterance: the summary's phone mean is 1 and the second word has 0.55.
C24_SilentWordAssessed ==
    /\ pc = "assessed"
    /\ mfa_words = <<WordAt, Lower(WordThe)>>
    /\ word_phones[2] = <<>>
    /\ is_intelligible
    /\ "pte_summary" \in DOMAIN results[2]
    /\ results[2].pte_summary.phone = Rat(1, 1)
    /\ results[2].phone_quality_score = INTELLIGIBILITY_FLOOR

(***************************************************************************)
(* analyze_speaker_baseline (pte_core/mfa/speaker_normalization.py).       *)
(*                                                                         *)
(* A phone is [label, start, end, duration]; times are whole ticks of      *)
(* 0.01 s.  The returned dict holds rationals in seconds (speech_rate in   *)
(* phones per second, vowel_ratio a pure ratio) and the phone count.       *)
(***************************************************************************)
SPEAKER_BASELINE_DURATION == 300

DefaultBaseline ==
    [speech_rate |-> Rat(10, 1),
     median_vowel_duration |-> Rat(10, 100),
     median_consonant_duration |-> Rat(6, 100),
     avg_pause_duration |-> Rat(1, 10),
     vowel_ratio |-> Rat(4, 10),
     phone_count |-> 0]

BaselineConsonants ==
    {<<"B">>, <<"C", "H">>, <<"D">>, <<"D", "H">>, <<"F">>, <<"G">>, <<"H", "H">>,
     <<"J", "H">>, <<"K">>, <<"L">>, <<"M">>, <<"N">>, <<"N", "G">>, <<"P">>, <<"R">>,
     <<"S">>, <<"S", "H">>, <<"T">>, <<"T", "H">>, <<"V">>, <<"W">>, <<"Y">>, <<"Z">>,
     <<"Z", "H">>}

\* label.upper().rstrip("012")
NormalizePhoneLabel(label) == RStrip012(Upper(label))
IsVowel(label) == NormalizePhoneLabel(label) \in VOWELS
IsConsonant(label) == NormalizePhoneLabel(label) \in BaselineConsonants

\* sorted(xs) of integers
RECURSIVE SortInts(_)
SortInts(xs) ==
    IF xs = <<>> THEN <<>>
    ELSE LET rest == SortInts(Tail(xs))
             below == SelectSeq(rest, LAMBDA x : x < Head(xs))
             above == SelectSeq(rest, LAMBDA x : x >= Head(xs))
         IN below \o <<Head(xs)>> \o above

\* statistics.median of a non-empty list of ticks, in seconds
Median(xs) ==
    LET sorted == SortInts(xs)
        n == Len(xs)
    IN IF n % 2 = 1 THEN Rat(sorted[(n + 1) \div 2], 100)
       ELSE Rat(sorted[n \div 2] + sorted[n \div 2 + 1], 200)

\* sorted(phones, key=start): stable
RECURSIVE SortByStart(_)
SortByStart(ps) ==
    IF ps = <<>> THEN <<>>
    ELSE LET rest == SortByStart(Tail(ps))
             below == SelectSeq(rest, LAMBDA q : q.start < Head(ps).start)
             above == SelectSeq(rest, LAMBDA q : q.start >= Head(ps).start)
         IN below \o <<Head(ps)>> \o above

RECURSIVE SumInts(_)
SumInts(xs) == IF xs = <<>> THEN 0 ELSE Head(xs) + SumInts(Tail(xs))

\* The positive gaps between consecutive phones of the sorted list.
BaselinePauses(sorted) ==
    LET gaps == [k \in 1..(Len(sorted) - 1) |-> sorted[k + 1].start - sorted[k].end]
    IN SelectSeq(gaps, LAMBDA g : g > 0)

BaselinePhones(ps, window) ==
    SelectSeq(ps, LAMBDA q : q.start < window /\ ~IsSilenceLabel(q.label))

ComputedBaseline(baseline_phones, window) ==
    LET n == Len(baseline_phones)
        actual_duration == Min2(baseline_phones[n].end - baseline_phones[1].start, window)
        durations == [k \in 1..n |-> baseline_phones[k].duration]
        vowel_durations ==
            LET vs == SelectSeq(baseline_phones, LAMBDA q : IsVowel(q.label))
            IN [k \in 1..Len(vs) |-> vs[k].duration]
        consonant_durations ==
            LET cs == SelectSeq(baseline_phones, LAMBDA q : ~IsVowel(q.label) /\ IsConsonant(q.label))
            IN [k \in 1..Len(cs) |-> cs[k].duration]
        pauses == BaselinePauses(SortByStart(baseline_phones))
    IN [speech_rate |-> IF actual_duration > 0 THEN Rat(100 * n, actual_duration) ELSE Rat(10, 1),
        median_vowel_duration |->
            IF vowel_durations # <<>> THEN Median(vowel_durations) ELSE Rat(10, 100),
        median_consonant_duration |->
            IF consonant_durations # <<>> THEN Median(consonant_durations) ELSE Rat(6, 100),
        avg_pause_duration |->
            IF pauses # <<>> THEN Rat(SumInts(pauses), 100 * Len(pauses)) ELSE Rat(1, 10),
        vowel_ratio |->
            IF SumInts(durations) > 0 THEN Rat(SumInts(vowel_durations), SumInts(durations))
            ELSE Rat(4, 10),
        phone_count |-> n]

analyze_speaker_baseline(ps, window) ==
    IF BaselinePhones(ps, window) = <<>> THEN DefaultBaseline
    ELSE ComputedBaseline(BaselinePhones(ps, window), window)

MaxBaselinePhones == 3

BaselineLabels == {<<"A", "E", "1">>, <<"T">>, <<"s", "p">>}
BaselineGaps == {0, 5}
BaselineDurations == {5, 10}
BaselineFirstStarts == {0, 300}

\* Phones in time order: each starts a gap after the one before.
RECURSIVE PhoneTrack(_, _)
PhoneTrack(shape, at) ==
    IF shape = <<>> THEN <<>>
    ELSE LET start == at + shape[1][2]
             end == start + shape[1][3]
         IN <<[label |-> shape[1][1], start |-> start, end |-> end, duration |-> shape[1][3]]>>
                \o PhoneTrack(Tail(shape), end)

InitBaseline ==
    /\ pc = "baseline"
    /\ \E shape \in SeqUpTo(BaselineLabels \X BaselineGaps \X BaselineDurations, MaxBaselinePhones) :
       \E first \in BaselineFirstStarts :
          bl_phones = PhoneTrack(shape, first)
    /\ baseline = <<>>
    /\ mfa_words = <<>> /\ word_phones = <<>> /\ is_intelligible = FALSE
    /\ word_idx = 0 /\ results = <<>>
    /\ dp_phone_scores = <<>> /\ dp_stress_scores = <<>>
    /\ all_patterns = <<>> /\ all_errors = <<>>
    /\ final_stop_opportunities = 0 /\ final_stop_drops = 0
    /\ pattern_counts = <<>> /\ bonus = None
    /\ exp_phone = <<>> /\ act_phone = <<>> /\ word_final = FALSE /\ costs = <<>>
    /\ PhonemeDPIdle /\ AlignIdle /\ ScoreIdle /\ BandIdle /\ PauseIdle

AnalyzeBaseline ==
    /\ pc = "baseline"
    /\ baseline' = analyze_speaker_baseline(bl_phones, SPEAKER_BASELINE_DURATION)
    /\ pc' = "baseline_done"
    /\ UNCHANGED <<bl_phones, mfa_words, word_phones, is_intelligible, word_idx, results,
                   dp_phone_scores, dp_stress_scores, all_patterns, all_errors,
                   final_stop_opportunities, final_stop_drops,
                   pattern_counts, bonus, exp_phone, act_phone, word_final, costs,
                   expected, observed, accent_tolerant, expected_len, alignment,
                   intelligibility, alignVars, scoreVars, bandVars, pauseVars>>

NextBaseline == AnalyzeBaseline

SpecBaseline == InitBaseline /\ [][NextBaseline]_vars

\* C25 (as stated): with fewer than 10 usable (non-silence) phones inside
\* the baseline window, analyze_speaker_baseline returns the default
\* baseline.
C25_FewPhonesDefault ==
    (pc = "baseline_done" /\ Len(BaselinePhones(bl_phones, SPEAKER_BASELINE_DURATION)) < 10)
        => /\ baseline.speech_rate = Rat(10, 1)
           /\ baseline.median_vowel_duration = Rat(10, 100)
           /\ baseline.median_consonant_duration = Rat(6, 100)
           /\ baseline.avg_pause_duration = Rat(1, 10)
           /\ baseline.vowel_ratio = Rat(4, 10)

\* What the function does: the defaults are returned only when no usable
\* phone starts inside the window; from one phone on, the statistics are
\* computed from the phones there are and phone_count is their number.
C25_DefaultOnlyWhenEmpty ==
    pc = "baseline_done" =>
        LET usable == BaselinePhones(bl_phones, SPEAKER_BASELINE_DURATION) IN
        /\ baseline.phone_count = Len(usable)
        /\ usable = <<>> => baseline = DefaultBaseline
        /\ usable # <<>> =>
               /\ baseline.speech_rate =
                      Rat(100 * Len(usable), Min2(usable[Len(usable)].end - usable[1].start, 300))
               /\ (\A k \in 1..Len(usable) : IsVowel(usable[k].label)) => baseline.vowel_ratio = Rat(1, 1)

\* Two usable phones, AE1 for 0.10 s and T for 0.05 s back to back: the
\* result is computed (rate 2/0.15 per second), not the default.
C25_TwoPhonesComputed ==
    /\ pc = "baseline_done"
    /\ Len(bl_phones) = 2
    /\ baseline.phone_count = 2
    /\ baseline.speech_rate = Rat(40, 3)
    /\ baseline.median_vowel_duration = Rat(1, 10)
    /\ baseline.median_consonant_duration = Rat(1, 20)
    /\ baseline.vowel_ratio = Rat(2, 3)
    /\ baseline.avg_pause_duration = Rat(1, 10)

\* The aligned items of the report's inputs that are inserted hypothesis words.
InsertedItems ==
    LET aligned == align_reference_to_asr(reference_text, asr_words)
    IN {k \in 1..Len(aligned) : aligned[k].op = "ins"}

\* The reference is N >= 1 words followed by one period, every word is
\* recognized in order with nothing inserted, and the backend returned a
\* "correct" result for every word.
AllWordsCorrect ==
    LET tokens == tokenize_reference(reference_text)
        aligned == align_reference_to_asr(reference_text, asr_words)
    IN /\ Len(tokens) >= 2
       /\ tokens[Len(tokens)] = <<".">>
       /\ \A k \in 1..(Len(tokens) - 1) : ~is_punctuation(tokens[k])
       /\ Len(aligned) = Len(tokens)
       /\ \A k \in 1..(Len(tokens) - 1) : aligned[k].op = "match"
       /\ Len(pronunciation_results) = Len(tokens) - 1
       /\ \A k \in 1..Len(pronunciation_results) : pronunciation_results[k].status = "correct"

\* C26: summary.total_words is the number of entries of the merged words
\* list, which has one entry per reference token, punctuation included, plus
\* one per inserted hypothesis word; summary.correct counts the entries with
\* status "correct"; for N words and a period, all recognized in order and
\* all pronounced correctly, total_words = N + 1 and correct >= N.
C26_ReportTotals ==
    pc = "reported" =>
        /\ report.summary.total_words = Len(report.words)
        /\ Len(report.words) =
               Len(tokenize_reference(reference_text)) + Cardinality(InsertedItems)
        /\ report.summary.correct = CountStatus(report.words, "correct")
        /\ AllWordsCorrect =>
               /\ report.summary.total_words = Len(tokenize_reference(reference_text))
               /\ report.summary.correct >= Len(tokenize_reference(reference_text)) - 1

\* "I like cats." read in full with three correct results: four entries,
\* three of them correct.
C26_ExampleTotals ==
    /\ pc = "reported"
    /\ reference_text = ExampleReference
    /\ AllWordsCorrect
    /\ report.summary.total_words = 4
    /\ report.summary.correct = 3

\* A report whose words list holds an inserted hypothesis word.
C26_InsertionCounted ==
    /\ pc = "reported"
    /\ InsertedItems # {}
    /\ report.summary.total_words > Len(tokenize_reference(reference_text))

\* The score pronunciation_score_0_100 gives the components of a PTE summary
\* at a rhythm value, for either outcome of a rounding tie.
ScoresAt(pte_summary, rhythm) ==
    {ScorePte(pte_summary.phone, pte_summary.stress, rhythm, pte_summary.consistency_bonus, t) :
        t \in BOOLEAN}

\* C27 (as stated): the recomputed score_pte of the report equals
\* pronunciation_score_0_100 evaluated at the rhythm stored in the same
\* summary, also when that rhythm is 0.
C27_ScoreAtStoredRhythm ==
    (pc = "reported" /\ "pte_pronunciation" \in DOMAIN report.summary) =>
        LET pte_summary == report.summary.pte_pronunciation IN
        /\ pte_summary.rhythm = report.summary.rhythm_score
        /\ pte_summary.score_pte \in ScoresAt(pte_summary, pte_summary.rhythm)

\* What the code does: the stored rhythm is the report's rhythm score, and
\* the score is computed at that rhythm unless it is 0, when it is computed
\* at rhythm 1.0.
C27_ZeroRhythmScoredAsOne ==
    (pc = "reported" /\ "pte_pronunciation" \in DOMAIN report.summary) =>
        LET pte_summary == report.summary.pte_pronunciation IN
        /\ pte_summary.rhythm = report.summary.rhythm_score
        /\ pte_summary.score_pte \in
               ScoresAt(pte_summary,
                        IF pte_summary.rhythm = Rat(0, 1) THEN Rat(1, 1) ELSE pte_summary.rhythm)

\* A report whose pause penalty reaches the cap: rhythm 0 is stored next to
\* the score of rhythm 1.0 (phone 0.9, stress 0.8, bonus 0.06: 82.1, where
\* rhythm 0 gives 73.1).
C27_ZeroRhythmReported ==
    /\ pc = "reported"
    /\ "pte_pronunciation" \in DOMAIN report.summary
    /\ report.summary.pause_penalty = MAX_PUNCTUATION_PENALTY
    /\ report.summary.pte_pronunciation.rhythm = Rat(0, 1)
    /\ report.summary.pte_pronunciation.phone = Rat(9, 10)
    /\ report.summary.pte_pronunciation.score_pte = 821

\* The reference-word occurrence the k-th content result stands for: the
\* backend returns one result per reference word, in order.
Occurrence(k) ==
    Cardinality({j \in 1..k : matcher_out[j].status \in {"correct", "missed", "substituted"}})

\* The last backend result for the same word as the k-th content result.
LastResultFor(k) ==
    CHOOSE i \in 1..Len(pronunciation_results) :
        /\ WordKey(pronunciation_results[i].word) = WordKey(matcher_out[k].word)
        /\ \A j \in (i + 1)..Len(pronunciation_results) :
               WordKey(pronunciation_results[j].word) # WordKey(matcher_out[k].word)

\* C29 (as stated): every content word with status "correct" receives the
\* status and confidence of the pronunciation result of its own occurrence.
C29_OwnOccurrence ==
    (pc = "reported" /\ pronunciation_results # <<>>) =>
        \A k \in 1..Len(matcher_out) :
            matcher_out[k].status = "correct" =>
                /\ report.words[k].status = pronunciation_results[Occurrence(k)].status
                /\ report.words[k].confidence = pronunciation_results[Occurrence(k)].confidence

\* What the code does: the result is looked up by word text, so every
\* correct occurrence of a word receives the result of the word's last
\* occurrence.
C29_LastOccurrence ==
    (pc = "reported" /\ pronunciation_results # <<>>) =>
        \A k \in 1..Len(matcher_out) :
            matcher_out[k].status = "correct" =>
                /\ report.words[k].status = pronunciation_results[LastResultFor(k)].status
                /\ report.words[k].confidence = pronunciation_results[LastResultFor(k)].confidence

\* "like like." read in full, the first "like" mispronounced and the
\* second correct: both entries of the report are correct.
C29_RepeatedWordReported ==
    /\ pc = "reported"
    /\ reference_text = WordsLikeLike
    /\ Len(pronunciation_results) = 2
    /\ pronunciation_results[1].status = "mispronounced"
    /\ pronunciation_results[2].status = "correct"
    /\ matcher_out[1].status = "correct" /\ matcher_out[2].status = "correct"
    /\ report.words[1].status = "correct"
    /\ report.words[1].confidence = pronunciation_results[2].confidence

(***************************************************************************)
(* The job store of api/app.py for one job id: the /check handler creates  *)
(* the job and starts the worker thread run_mfa_job; check_status requests *)
(* run in request threads.  A step is one read or one write of the job     *)
(* dict, the grain at which the interpreter switches threads; the worker   *)
(* and a request interleave freely.  Requests are served one at a time, up *)
(* to MaxPolls of them.                                                    *)
(***************************************************************************)
NoValue == <<"None">>
MaxPolls == 2
EngineResults == {<<"report a">>, <<"report b">>}
EngineErrors == {<<"alignment failed">>}

InitJob ==
    /\ pc = "job"
    /\ JOB_STORE = <<>> /\ worker_pc = "none" /\ engine_out = <<>> /\ temp_files = FALSE
    /\ req_pc = "idle" /\ response = <<>> /\ polls = 0
    /\ pronunciation_results = <<>> /\ report = <<>>
    /\ reference_text = <<>> /\ asr_words = <<>> /\ matcher_out = <<>>
    /\ PauseEvalIdle /\ AlignIdle /\ ScoreIdle /\ BandIdle /\ PhonemeIdle

JobRest ==
    <<pc, pronunciation_results, report, reference_text, asr_words, matcher_out,
      speech_rate_scale, pending, pause_results, clustered, pause_penalty,
      alignVars, scoreVars, bandVars, phonemeVars>>

\* /check: the job is stored as queued and the worker thread is started.
Submit ==
    /\ JOB_STORE = <<>>
    /\ JOB_STORE' = [status |-> "queued", result |-> NoValue, error |-> NoValue]
    /\ temp_files' = TRUE
    /\ worker_pc' = "start"
    /\ UNCHANGED <<engine_out, req_pc, response, polls, JobRest>>

\* run_mfa_job: JOB_STORE[job_id]['status'] = 'processing'
WorkerProcessing ==
    /\ worker_pc = "start"
    /\ JOB_STORE' = [JOB_STORE EXCEPT !.status = "processing"]
    /\ worker_pc' = "engine"
    /\ UNCHANGED <<engine_out, temp_files, req_pc, response, polls, JobRest>>

\* result = align_and_validate(audio_path, text_path) returns
WorkerEngineReturns ==
    /\ worker_pc = "engine"
    /\ \E r \in EngineResults : engine_out' = r
    /\ worker_pc' = "returned"
    /\ UNCHANGED <<JOB_STORE, temp_files, req_pc, response, polls, JobRest>>

\* align_and_validate raises
WorkerEngineRaises ==
    /\ worker_pc = "engine"
    /\ \E e \in EngineErrors : engine_out' = e
    /\ worker_pc' = "raised"
    /\ UNCHANGED <<JOB_STORE, temp_files, req_pc, response, polls, JobRest>>

\* JOB_STORE[job_id]['status'] = 'complete'
WorkerSetComplete ==
    /\ worker_pc = "returned"
    /\ JOB_STORE' = [JOB_STORE EXCEPT !.status = "complete"]
    /\ worker_pc' = "status_complete"
    /\ UNCHANGED <<engine_out, temp_files, req_pc, response, polls, JobRest>>

\* JOB_STORE[job_id]['result'] = result
WorkerSetResult ==
    /\ worker_pc = "status_complete"
    /\ JOB_STORE' = [JOB_STORE EXCEPT !.result = engine_out]
    /\ worker_pc' = "cleanup"
    /\ UNCHANGED <<engine_out, temp_files, req_pc, response, polls, JobRest>>

\* JOB_STORE[job_id]['status'] = 'failed'
WorkerSetFailed ==
    /\ worker_pc = "raised"
    /\ JOB_STORE' = [JOB_STORE EXCEPT !.status = "failed"]
    /\ worker_pc' = "status_failed"
    /\ UNCHANGED <<engine_out, temp_files, req_pc, response, polls, JobRest>>

\* JOB_STORE[job_id]['error'] = str(e)
WorkerSetError ==
    /\ worker_pc = "status_failed"
    /\ JOB_STORE' = [JOB_STORE EXCEPT !.error = engine_out]
    /\ worker_pc' = "cleanup"
    /\ UNCHANGED <<engine_out, temp_files, req_pc, response, polls, JobRest>>

\* finally: the temporary files are removed
WorkerCleanup ==
    /\ worker_pc = "cleanup"
    /\ temp_files' = FALSE
    /\ worker_pc' = "done"
    /\ UNCHANGED <<JOB_STORE, engine_out, req_pc, response, polls, JobRest>>

\* check_status: if job_id not in JOB_STORE: 404
RequestNotFound ==
    /\ req_pc = "idle" /\ polls < MaxPolls
    /\ JOB_STORE = <<>>
    /\ response' = [error |-> <<"Job not found">>, code |-> 404]
    /\ polls' = polls + 1
    /\ UNCHANGED <<JOB_STORE, worker_pc, engine_out, temp_files, req_pc, JobRest>>

\* job = JOB_STORE[job_id]; response = {"job_id": job_id, "status": job['status']}
RequestReadStatus ==
    /\ req_pc = "idle" /\ polls < MaxPolls
    /\ JOB_STORE # <<>>
    /\ response' = [status |-> JOB_STORE.status, code |-> 200]
    /\ req_pc' = "branch"
    /\ UNCHANGED <<JOB_STORE, worker_pc, engine_out, temp_files, polls, JobRest>>

\* if job['status'] == 'complete': ... elif job['status'] == 'failed': ...
\* The status is read again; with neither, the response is returned.
RequestBranch ==
    /\ req_pc = "branch"
    /\ IF JOB_STORE.status = "complete"
           THEN req_pc' = "read_result" /\ polls' = polls
       ELSE IF JOB_STORE.status = "failed"
           THEN req_pc' = "read_error" /\ polls' = polls
       ELSE req_pc' = "idle" /\ polls' = polls + 1
    /\ UNCHANGED <<JOB_STORE, worker_pc, engine_out, temp_files, response, JobRest>>

\* response['result'] = job['result']; return
RequestReadResult ==
    /\ req_pc = "read_result"
    /\ response' = [result |-> JOB_STORE.result] @@ response
    /\ req_pc' = "idle"
    /\ polls' = polls + 1
    /\ UNCHANGED <<JOB_STORE, worker_pc, engine_out, temp_files, JobRest>>

\* response['error'] = job['error']; return
RequestReadError ==
    /\ req_pc = "read_error"
    /\ response' = [error |-> JOB_STORE.error] @@ response
    /\ req_pc' = "idle"
    /\ polls' = polls + 1
    /\ UNCHANGED <<JOB_STORE, worker_pc, engine_out, temp_files, JobRest>>

NextJob ==
    \/ Submit
    \/ WorkerProcessing \/ WorkerEngineReturns \/ WorkerEngineRaises
    \/ WorkerSetComplete \/ WorkerSetResult \/ WorkerSetFailed \/ WorkerSetError
    \/ WorkerCleanup
    \/ RequestNotFound \/ RequestReadStatus \/ RequestBranch
    \/ RequestReadResult \/ RequestReadError

SpecJob == InitJob /\ [][NextJob]_vars

\* A response check_status has returned.
Returned == req_pc = "idle" /\ response # <<>>

\* C30 (as stated, the responses): a returned response that reports
\* "complete" carries the job's final result, never the initial None, and
\* one that reports "failed" carries the error.
C30_ResponseCarriesOutcome ==
    (Returned /\ response.code = 200) =>
        /\ response.status = "complete" =>
               "result" \in DOMAIN response /\ response.result \in EngineResults
        /\ response.status = "failed" =>
               "error" \in DOMAIN response /\ response.error \in EngineErrors

\* The status half of the protocol, which the code keeps: the status moves
\* only queued -> processing -> complete or failed and then stays.
C30_StatusMoves ==
    [][(JOB_STORE # <<>> /\ JOB_STORE'.status # JOB_STORE.status)
          => <<JOB_STORE.status, JOB_STORE'.status>> \in
                 {<<"queued", "processing">>, <<"processing", "complete">>,
                  <<"processing", "failed">>}]_vars

\* What a response holds: a status the job has had, with the result or the
\* error present exactly when the second read of the status found the job
\* complete or failed, and then equal to the final value or still None.
C30_ResponseMayCarryNone ==
    (Returned /\ response.code = 200) =>
        /\ "result" \in DOMAIN response =>
               /\ JOB_STORE.status = "complete"
               /\ response.result \in {NoValue, engine_out}
        /\ "error" \in DOMAIN response =>
               /\ JOB_STORE.status = "failed"
               /\ response.error \in {NoValue, engine_out}

\* A request that read the status after the worker wrote 'complete' and the
\* result before the worker wrote it.
C30_CompleteWithNone ==
    /\ Returned
    /\ response.code = 200
    /\ response.status = "complete"
    /\ response.result = NoValue

\* The pattern counts extract_errors_and_patterns derives from the returned
\* alignment path, as a dict.
PathPatterns == DictOf(extract_errors_and_patterns(alignment.alignment_path).accent_patterns)

CountIn(counts, key) == IF key \in DOMAIN counts THEN counts[key] ELSE 0

\* C28 (as stated): metadata["patterns"] of align_phonemes_with_dp equals
\* the pattern counts extract_errors_and_patterns derives from the returned
\* path.
C28_PatternsFromPath ==
    pc \in {"phonemes_aligned", "intelligibility_scored"} =>
        alignment.metadata.patterns = PathPatterns

\* What the code does: the aligner counts a pattern at every cell of the DP
\* table whose best step is a substitution, on the returned path or not, so
\* for observed phones with a label a pattern of the path is counted at
\* least as often in the metadata, and the metadata may hold more.
C28_PatternsFromAllCells ==
    (pc \in {"phonemes_aligned", "intelligibility_scored"} /\ \A k \in 1..Len(observed) : base_phone(observed[k]) # <<>>)
        => \A key \in DOMAIN PathPatterns :
               CountIn(alignment.metadata.patterns, key) >= PathPatterns[key]

\* Expected [D, TH] against observed [T], accent tolerant: the path is
\* del(D), sub(TH, T); the metadata also counts the off-path cell (D, T).
C28_OffPathPattern ==
    /\ pc = "phonemes_aligned"
    /\ expected = << <<"D">>, <<"T", "H">> >>
    /\ observed = << <<"T">> >>
    /\ accent_tolerant
    /\ PathPatterns = (<< <<"T", "H">>, <<"T">> >> :> 1)
    /\ alignment.metadata.patterns =
           (<< <<"D">>, <<"T">> >> :> 1) @@ (<< <<"T", "H">>, <<"T">> >> :> 1)

====
